---- MODULE Spec2Model ----
(***************************************************************************)
(* Maileg: correspondence classification and slot matching.                *)
(*                                                                         *)
(* Text is modelled as sequences of one-character strings, so that         *)
(* substring containment, splitting and replacement are computed the way   *)
(* the Python string methods compute them.                                 *)
(***************************************************************************)
EXTENDS Integers, Sequences, FiniteSets, TLC

VARIABLES
    \* ---- one run of Maileg.main ----
    pc,                          \* position in Maileg.main
    total,                       \* number of message handles the search returned
    n,                           \* number of handles already taken by the loop
    one_message_keyword_filter,  \* the parsed current message
    response_status,             \* result of check_email_response_status
    sent_mails_waiting_for_answer_or_confirmation, \* in-memory ledger
    waiting_file,                \* mails_waiting_for_answer.txt
    events,                      \* self.events
    list_of_optional_hours,      \* offered slots, in retrieval order
    calendar_fetches,            \* how many times calendar_stuff ran
    mails_to_answer,             \* enqueued inquiries
    something_happened,
    removing_unread_label_blocker,
    calendar_updates,            \* events().update calls issued: <<slot, address>>
    confirmations,               \* addresses a confirmation mail was sent to
    offers,                      \* offer replies sent (addresses)
    archive,                     \* messages (by position in the batch) written to the daily archive
    marked,                      \* mark_as_read was invoked
    outcomes,                    \* terminal states the run's messages reached
    logged,                      \* errors and warnings the handlers and calendar_stuff logged
    formatted_workout_strings,   \* the lines of the offer text
    last,                        \* what the last step did, and for whom
    \* ---- reading_answers applied to one body and one offered list ----
    ra_pc,
    raw_body,
    offered,
    filtered_body,
    sender_choice,
    \* ---- the ledger of one FileManagement object and its file ----
    lg_pc,
    lg_file,                     \* mails_waiting_for_answer.txt
    lg_mem,                      \* sent_mails_waiting_for_answer_or_confirmation
    lg_new,                      \* how many entries at the end of lg_mem were never written
    lg_ops,                      \* operations performed so far
    lg_log,                      \* what the load logged
    lg_last,                     \* the last operation and its argument
    \* ---- one call of a function wrapped by handle_api_errors ----
    rt_pc,
    rt_script,                   \* what each attempt of the wrapped function does
    rt_attempt,                  \* the loop variable
    rt_calls,                    \* attempts made
    rt_delays,                   \* time.sleep calls, in order
    last_exception,
    rt_result,
    \* ---- calendar_stuff applied to one calendar under one configuration ----
    cl_pc,
    cl_name,                     \* config.CALENDAR_OPTIONAL_HOUR_NAME
    cl_events,
    cl_hours,                    \* list_of_optional_hours it builds
    \* ---- the mode of the run and the prepared responses ----
    without_answering_mode,      \* args.without_answering
    prepared,                    \* writes to the prepared-response folder
    \* ---- two Date headers classified against one ledger entry ----
    dt_pc,
    dt_headers,                  \* the two Date headers
    dt_entry,                    \* since when the sender is awaited
    dt_receipts,                 \* one_message_keyword_filter["date"] for each header
    dt_statuses,                 \* the classification for each header
    \* ---- the mailbox calls of one run: search, read, mark as read ----
    mb_pc,
    mb_pages,                    \* the pages the mailbox search returns
    mb_failures,                 \* transport failures still to come
    messages,                    \* self.messages
    mb_page,                     \* pages fetched by the running search_messages
    mb_attempt,                  \* loop variable of search_messages' wrapper
    mb_outer,                    \* loop variable of mark_as_read's wrapper
    mb_failed,                   \* failed transport calls in the current operation
    mb_classified,               \* how often each message was read and classified
    mb_marked,                   \* ids passed to batchModify
    \* ---- the text of the ledger file under flush and remove ----
    fl_pc,
    fl_exists,                   \* the file exists
    fl_text,                     \* its characters
    fl_mem,                      \* the in-memory entries
    fl_log,                      \* the operations so far
    \* ---- several runs over one mailbox ----
    rn_pc,
    rn_inbox,                    \* the messages of the mailbox
    rn_unread,                   \* which of them carry the UNREAD label
    rn_batch,                    \* the handles the search of this run returned
    rn_run,                      \* runs started
    rn_file,                     \* mails_waiting_for_answer.txt
    rn_mem,                      \* the in-memory ledger of this run
    rn_queue,                    \* mails_to_answer: positions in the mailbox
    rn_blocker,                  \* removing_unread_label_blocker
    rn_events,                   \* the calendar
    rn_fetched,                  \* self.events of this run
    rn_hours,                    \* list_of_optional_hours of this run
    rn_actions                   \* offer replies and bookings: <<message, kind>>

runVars == <<pc, total, n, one_message_keyword_filter,
             response_status, sent_mails_waiting_for_answer_or_confirmation,
             waiting_file, events, list_of_optional_hours, calendar_fetches,
             mails_to_answer, something_happened, removing_unread_label_blocker,
             calendar_updates, confirmations, offers, archive, marked, outcomes,
             logged, formatted_workout_strings, last,
             without_answering_mode, prepared>>

raVars == <<ra_pc, raw_body, offered, filtered_body, sender_choice>>

lgVars == <<lg_pc, lg_file, lg_mem, lg_new, lg_ops, lg_log, lg_last>>

rtVars == <<rt_pc, rt_script, rt_attempt, rt_calls, rt_delays, last_exception,
            rt_result>>

clVars == <<cl_pc, cl_name, cl_events, cl_hours>>

dtVars == <<dt_pc, dt_headers, dt_entry, dt_receipts, dt_statuses>>

mbVars == <<mb_pc, mb_pages, mb_failures, messages, mb_page, mb_attempt,
            mb_outer, mb_failed, mb_classified, mb_marked>>

flVars == <<fl_pc, fl_exists, fl_text, fl_mem, fl_log>>

rnVars == <<rn_pc, rn_inbox, rn_unread, rn_batch, rn_run, rn_file, rn_mem,
            rn_queue, rn_blocker, rn_events, rn_fetched, rn_hours,
            rn_actions>>

\* what a run of Maileg.main leaves alone
offRun == <<raVars, lgVars, rtVars, clVars, dtVars, mbVars, flVars, rnVars>>

\* what each of the other specifications leaves alone
offRA == <<runVars, lgVars, rtVars, clVars, dtVars, mbVars, flVars, rnVars>>

offLedger == <<runVars, raVars, rtVars, clVars, dtVars, mbVars, flVars, rnVars>>

offRetry == <<runVars, raVars, lgVars, clVars, dtVars, mbVars, flVars, rnVars>>

offCalendar == <<runVars, raVars, lgVars, rtVars, dtVars, mbVars, flVars, rnVars>>

offDate == <<runVars, raVars, lgVars, rtVars, clVars, mbVars, flVars, rnVars>>

offMailbox == <<runVars, raVars, lgVars, rtVars, clVars, dtVars, flVars, rnVars>>

offFile == <<runVars, raVars, lgVars, rtVars, clVars, dtVars, mbVars, rnVars>>

offRuns == <<runVars, raVars, lgVars, rtVars, clVars, dtVars, mbVars, flVars>>

vars == <<runVars, raVars, lgVars, rtVars, clVars, dtVars, mbVars, flVars,
          rnVars>>

----------------------------------------------------------------------------
(* Bounds *)

MaxQuote == 2     \* length of the text that follows a slot in a reply body
MaxSlots == 2     \* length of the offered list
MaxMsgs == 2      \* messages in one run's batch
MaxTime == 3      \* timestamps are 1..MaxTime
MaxOps == 4       \* ledger operations in a row
MaxFailures == 4  \* failing transport calls in one run of the mailbox steps
MaxRuns == 2      \* runs of Maileg.main over one mailbox

----------------------------------------------------------------------------
(* Python string methods on sequences of characters *)

\* p in s
IsSubstr(p, s) ==
    \E i \in 0..(Len(s) - Len(p)) : SubSeq(s, i + 1, i + Len(p)) = p

\* s.find(p) + 1: the first position where p occurs, 0 when it does not
Find(s, p) ==
    LET at == {i \in 1..(Len(s) - Len(p) + 1) : SubSeq(s, i, i + Len(p) - 1) = p}
    IN  IF at = {} THEN 0 ELSE CHOOSE i \in at : \A j \in at : i <= j

\* s.split(p, 1)[0]
SplitHead(s, p) ==
    LET f == Find(s, p) IN IF f = 0 THEN s ELSE SubSeq(s, 1, f - 1)

\* s.split(p): the list of pieces
RECURSIVE Split(_, _)
Split(s, p) ==
    LET f == Find(s, p)
    IN  IF f = 0 THEN <<s>>
        ELSE <<SubSeq(s, 1, f - 1)>> \o Split(SubSeq(s, f + Len(p), Len(s)), p)

\* s.replace(p, r): non-overlapping occurrences, left to right, one pass
RECURSIVE Replace(_, _, _)
Replace(s, p, r) ==
    LET f == Find(s, p)
    IN  IF f = 0 THEN s
        ELSE SubSeq(s, 1, f - 1) \o r
             \o Replace(SubSeq(s, f + Len(p), Len(s)), p, r)

LowerChar(c) ==
    CASE c = "A" -> "a" [] c = "G" -> "g" [] c = "M" -> "m" [] c = "T" -> "t"
      [] c = "W" -> "w" [] OTHER -> c

\* s.lower()
Lower(s) == [i \in DOMAIN s |-> LowerChar(s[i])]

NL == "\n"

\* s.lower().replace(" ", "")
LowerNoSpaces(s) == Replace(Lower(s), <<" ">>, <<>>)

----------------------------------------------------------------------------
(* Slot Formatter *)

LANGUAGE == <<>>

\* UtilityFunctions.translator: with no language configured the word is
\* returned as it is; a configured language translates the known words.
translator(word, language) ==
    IF language # <<>>
    THEN CASE Lower(word) = <<"m", "o", "n">> -> <<"p", "o", "n">>
           [] Lower(word) = <<"t", "u", "e">> -> <<"w", "t", "o">>
           [] OTHER -> word
    ELSE word

UpperChar(c) ==
    CASE c = "a" -> "A" [] c = "g" -> "G" [] c = "m" -> "M" [] c = "t" -> "T"
      [] c = "w" -> "W" [] OTHER -> c

\* str.capitalize()
Capitalize(s) ==
    [i \in DOMAIN s |-> IF i = 1 THEN UpperChar(s[i]) ELSE LowerChar(s[i])]

\* strftime('%A') of the calendar date, for the dates of the model
DayName(date) ==
    CASE date = <<"1">> -> <<"M", "o", "n">>
      [] date = <<"2">> -> <<"T", "u", "e">>

ValidDate(date) == date \in {<<"1">>, <<"2">>}

\* UtilityFunctions.day_of_a_week (defined when the date part parses)
day_of_a_week(date_time) ==
    Capitalize(translator(Lower(DayName(Split(date_time, <<"T">>)[1])), LANGUAGE))

\* config.workout_hour_form: "{date} ({day_of_a_week}) at {hour} in {location}"
workout_hour_form(date, day, hour, location) ==
    date \o <<" ", "(">> \o day \o <<")", " ", "a", "t", " ">> \o hour
         \o <<" ", "i", "n", " ">> \o location

\* s[0:-9]
DropLast9(s) == IF Len(s) > 9 THEN SubSeq(s, 1, Len(s) - 9) ELSE <<>>

\* An item of list_of_optional_hours is <<start, summary, location>>.
\* The rendering raises (and the item is skipped) when the start has no
\* 'T' part (an all-day event) or its date does not parse.
Renderable(item) ==
    LET pieces == Split(item[1], <<"T">>)
    IN  Len(pieces) >= 2 /\ ValidDate(pieces[1])

formatted_string(item) ==
    LET pieces == Split(item[1], <<"T">>)
    IN  workout_hour_form(pieces[1],
                          translator(day_of_a_week(item[1]), LANGUAGE),
                          DropLast9(pieces[2]),
                          item[3])

----------------------------------------------------------------------------
(* Text Normalizer: the body clean-up of reading_answers *)

GT == <<">">>
STARS == <<"*", "*">>

\* cleared_body is assigned only when a marker is present
ClearedBound(raw) == IsSubstr(GT, raw) \/ IsSubstr(STARS, raw)

\* (mutation of cleared_body: keeps the text after the '>' marker)
ClearedBodyAfterMarker(raw) ==
    IF IsSubstr(GT, raw) THEN SubSeq(raw, Find(raw, GT) + 1, Len(raw))
    ELSE SplitHead(raw, STARS)

\* the '**' assignment comes second and overrides the '>' one
cleared_body(raw) ==
    IF IsSubstr(STARS, raw) THEN SplitHead(raw, STARS) ELSE SplitHead(raw, GT)

\* .replace("  ", " ").replace("\n", "")
Clean(s) == Replace(Replace(s, <<" ", " ">>, <<" ">>), <<NL>>, <<>>)

\* The try block: ok = FALSE when it raised (cleared_body read before any
\* assignment) and reading_answers returned [] at once.
FilterBody(raw) ==
    IF ~ClearedBound(raw) THEN [ok |-> FALSE, text |-> <<>>]
    ELSE LET cleared == cleared_body(raw)
         IN  [ok |-> TRUE,
              text |-> IF cleared # <<>> THEN Clean(cleared) ELSE Clean(raw)]

----------------------------------------------------------------------------
(* Slot Matcher: the slot loop of reading_answers *)

\* (mutation of ItemMatches: the collapsed form is not tried)
ItemMatchesStandardOnly(item, filtered) ==
    /\ Renderable(item)
    /\ IsSubstr(formatted_string(item), filtered)

\* the body of the loop: render the item, test both containments
ItemMatches(item, filtered) ==
    /\ Renderable(item)
    /\ LET formatted == formatted_string(item)
       IN  \/ IsSubstr(formatted, filtered)
           \/ IsSubstr(LowerNoSpaces(formatted), LowerNoSpaces(filtered))

RECURSIVE SlotLoop(_, _)
SlotLoop(items, filtered) ==
    IF items = <<>> THEN <<>>
    ELSE IF ItemMatches(Head(items), filtered) THEN Head(items)
    ELSE SlotLoop(Tail(items), filtered)

reading_answers(raw, items) ==
    LET filtered == FilterBody(raw)
    IN  IF filtered.ok THEN SlotLoop(items, filtered.text) ELSE <<>>

----------------------------------------------------------------------------
(* Inputs of the model *)

\* the 9 characters [0:-9] drops: ":00+01:00"
ZoneTail == <<":", "0", "0", "+", "0", "1", ":", "0", "0">>

DateTime(date, hour) == date \o <<"T">> \o hour \o ZoneTail

MARKER == <<"w">>

slotG  == <<DateTime(<<"1">>, <<"8">>), MARKER, <<"G">>>>
slotGA == <<DateTime(<<"1">>, <<"8">>), MARKER, <<"G", "A">>>>
slotQ  == <<DateTime(<<"2">>, <<"9">>), <<"W">>, <<"G", ">">>>>
slotN  == <<DateTime(<<"2">>, <<"8">>), MARKER, <<"G", NL>>>>
slotAllDay == <<<<"2">>, MARKER, <<"G">>>>

SlotUniverse == {slotG, slotGA, slotQ, slotN, slotAllDay}

SeqsUpTo(S, k) == UNION {[1..m -> S] : m \in 0..k}

QuoteChars == {">", "*", " ", "x"}

\* what a reply says before any quoted text
Cores ==
    {formatted_string(s) : s \in {slotG, slotGA, slotQ, slotN}}
    \cup {LowerNoSpaces(formatted_string(s)) : s \in {slotG, slotGA}}
    \cup {<<"x">> \o formatted_string(slotG),
          <<"1", NL>> \o Tail(formatted_string(slotG)),
          <<"x">>, <<>>}

RawBodies == {c \o q : c \in Cores, q \in SeqsUpTo(QuoteChars, MaxQuote)}

OfferedLists == SeqsUpTo(SlotUniverse, MaxSlots)

----------------------------------------------------------------------------
(* reading_answers on its own: one body, one offered list *)

NoFilter == [ok |-> FALSE, text |-> <<>>]

\* no ledger operation is under way
LgIdle ==
    /\ lg_pc = "off"
    /\ lg_file = [exists |-> FALSE, rows |-> <<>>]
    /\ lg_mem = <<>>
    /\ lg_new = 0
    /\ lg_ops = 0
    /\ lg_log = <<>>
    /\ lg_last = [op |-> "none", who |-> <<>>]

\* calendar_stuff is not being examined on its own
ClIdle ==
    /\ cl_pc = "off"
    /\ cl_name = <<>>
    /\ cl_events = <<>>
    /\ cl_hours = <<>>

\* no pair of Date headers is being compared
DtIdle ==
    /\ dt_pc = "off"
    /\ dt_headers = <<>>
    /\ dt_entry = 0
    /\ dt_receipts = <<>>
    /\ dt_statuses = <<>>

\* the mailbox calls are not being examined on their own
MbIdle ==
    /\ mb_pc = "off"
    /\ mb_pages = <<>>
    /\ mb_failures = 0
    /\ messages = <<>>
    /\ mb_page = 0
    /\ mb_attempt = 0
    /\ mb_outer = 0
    /\ mb_failed = 0
    /\ mb_classified = <<>>
    /\ mb_marked = <<>>

\* the specifications of the parts that are examined on their own are idle
FlIdle ==
    /\ fl_pc = "off"
    /\ fl_exists = FALSE
    /\ fl_text = <<>>
    /\ fl_mem = <<>>
    /\ fl_log = <<>>

RnIdle ==
    /\ rn_pc = "off"
    /\ rn_inbox = <<>>
    /\ rn_unread = {}
    /\ rn_batch = <<>>
    /\ rn_run = 0
    /\ rn_file = [exists |-> FALSE, rows |-> <<>>]
    /\ rn_mem = <<>>
    /\ rn_queue = <<>>
    /\ rn_blocker = FALSE
    /\ rn_events = <<>>
    /\ rn_fetched = <<>>
    /\ rn_hours = <<>>
    /\ rn_actions = <<>>

PartsIdle == ClIdle /\ DtIdle /\ MbIdle /\ FlIdle /\ RnIdle

\* no wrapped call is under way
RtIdle ==
    /\ rt_pc = "off"
    /\ rt_script = <<>>
    /\ rt_attempt = 0
    /\ rt_calls = 0
    /\ rt_delays = <<>>
    /\ last_exception = "None"
    /\ rt_result = "None"

RAIdle ==
    /\ ra_pc = "off"
    /\ raw_body = <<>>
    /\ offered = <<>>
    /\ filtered_body = NoFilter
    /\ sender_choice = <<>>

RunIdle ==
    /\ pc = "off"
    /\ total = 0
    /\ n = 0
    /\ one_message_keyword_filter = <<>>
    /\ response_status = "none"
    /\ sent_mails_waiting_for_answer_or_confirmation = <<>>
    /\ waiting_file = [exists |-> FALSE, rows |-> <<>>]
    /\ events = <<>>
    /\ list_of_optional_hours = <<>>
    /\ calendar_fetches = 0
    /\ mails_to_answer = <<>>
    /\ something_happened = FALSE
    /\ removing_unread_label_blocker = FALSE
    /\ calendar_updates = <<>>
    /\ confirmations = {}
    /\ offers = <<>>
    /\ archive = <<>>
    /\ marked = FALSE
    /\ outcomes = {}
    /\ logged = {}
    /\ formatted_workout_strings = <<>>
    /\ last = [op |-> "none", who |-> <<>>]
    /\ without_answering_mode = FALSE
    /\ prepared = <<>>

InitRA ==
    /\ RunIdle
    /\ PartsIdle
    /\ LgIdle
    /\ RtIdle
    /\ ra_pc = "start"
    /\ raw_body \in RawBodies
    /\ offered \in OfferedLists
    /\ filtered_body = NoFilter
    /\ sender_choice = <<>>

ReadingAnswers ==
    /\ ra_pc = "start"
    /\ ra_pc' = "done"
    /\ filtered_body' = FilterBody(raw_body)
    /\ sender_choice' = reading_answers(raw_body, offered)
    /\ UNCHANGED <<raw_body, offered, offRA>>

NextRA == ReadingAnswers

SpecRA == InitRA /\ [][NextRA]_vars

----------------------------------------------------------------------------
(* Correspondence Ledger *)

addrA  == <<"a">>
addrBA == <<"b", "a">>        \* an address that contains the address "a"
Addrs == {addrA, addrBA}

Times == 1..MaxTime

DigitChar(t) ==
    CASE t = 0 -> "0" [] t = 1 -> "1" [] t = 2 -> "2" [] t = 3 -> "3"
      [] t = 4 -> "4" [] t = 5 -> "5" [] t = 6 -> "6" [] t = 7 -> "7"
      [] t = 8 -> "8" [] OTHER -> "9"

\* a line of the file that no flush wrote: its text as it stands
Raw(text) == [text |-> text]

IsRaw(row) == "text" \in DOMAIN row

\* (mutation of LineOf: the row is written without its colon)
LineOfNoColon(row) ==
    IF IsRaw(row) THEN row.text
    ELSE <<" ", " ">> \o row.addr \o <<" ">> \o <<DigitChar(row.ts)>>

\* the text of a row of the file: "  {customers_mail}: {date_of_response}"
LineOf(row) ==
    IF IsRaw(row) THEN row.text
    ELSE <<" ", " ">> \o row.addr \o <<":", " ">> \o <<DigitChar(row.ts)>>

Whitespace == {" ", NL}

RECURSIVE LStrip(_)
LStrip(s) ==
    IF s # <<>> /\ Head(s) \in Whitespace THEN LStrip(Tail(s)) ELSE s

RECURSIVE RStrip(_)
RStrip(s) ==
    IF s # <<>> /\ s[Len(s)] \in Whitespace
    THEN RStrip(SubSeq(s, 1, Len(s) - 1)) ELSE s

\* s.strip()
Strip(s) == RStrip(LStrip(s))

\* s.split(p, 1)
Split1(s, p) ==
    LET f == Find(s, p)
    IN  IF f = 0 THEN <<s>>
        ELSE <<SubSeq(s, 1, f - 1), SubSeq(s, f + Len(p), Len(s))>>

DigitValue(c) ==
    CASE c = "0" -> 0 [] c = "1" -> 1 [] c = "2" -> 2 [] c = "3" -> 3
      [] c = "4" -> 4 [] c = "5" -> 5 [] c = "6" -> 6 [] c = "7" -> 7
      [] c = "8" -> 8 [] OTHER -> 9

\* UtilityFunctions.string_to_datetime: the text is parsed by the first
\* format it matches, a text that matches none raises ValueError.  The
\* accepted texts are here the one-digit timestamp "d", which stands for the
\* format "%d/%m/%Y %H:%M:%S", and "-d", which stands for the format
\* "%Y-%m-%d %H:%M:%S" (what str() of a datetime gives)
string_to_datetime(datetime_string) ==
    IF /\ Len(datetime_string) = 1
       /\ datetime_string[1] \in {DigitChar(t) : t \in 0..9}
    THEN [ok |-> TRUE, value |-> DigitValue(datetime_string[1])]
    ELSE IF /\ Len(datetime_string) = 2
            /\ datetime_string[1] = "-"
            /\ datetime_string[2] \in {DigitChar(t) : t \in 0..9}
    THEN [ok |-> TRUE, value |-> DigitValue(datetime_string[2])]
    ELSE [ok |-> FALSE, value |-> 0]

\* the loop body of the load, for one line: an entry, a blank line, a line
\* without the shape "email: date" or a date no format matches
ParseLine(line) ==
    LET split == Split1(Strip(line), <<":">>)
        parts == [i \in DOMAIN split |-> Strip(split[i])]
    IN  IF Len(parts) = 2
        THEN LET date_time_obj == string_to_datetime(parts[2])
             IN  IF date_time_obj.ok
                 THEN [kind |-> "entry",
                       row |-> [addr |-> parts[1], ts |-> date_time_obj.value]]
                 ELSE [kind |-> "bad_date", row |-> <<>>]
        ELSE IF parts[1] = <<>>
             THEN [kind |-> "blank", row |-> <<>>]
             ELSE [kind |-> "invalid", row |-> <<>>]

\* (mutation of LoadRows: a date that no format matches is logged and the
\* line skipped)
RECURSIVE LoadRowsSkipsBadDate(_, _)
LoadRowsSkipsBadDate(rows, acc) ==
    IF rows = <<>> THEN acc
    ELSE LET p == ParseLine(LineOf(Head(rows)))
         IN  CASE p.kind = "entry" ->
                    LoadRowsSkipsBadDate(Tail(rows),
                             [acc EXCEPT !.entries = Append(@, p.row)])
               [] p.kind = "blank" -> LoadRowsSkipsBadDate(Tail(rows), acc)
               [] p.kind = "invalid" ->
                    LoadRowsSkipsBadDate(Tail(rows),
                             [acc EXCEPT !.log = Append(@, "INVALID_LINE")])
               [] OTHER ->
                    LoadRowsSkipsBadDate(Tail(rows),
                             [acc EXCEPT !.log = Append(@, "INVALID_DATE")])

\* the loop of the load: entries are appended as they are read, an invalid
\* line is logged and skipped, a ValueError is logged twice (where the date
\* is parsed, and by the outer handler) and ends the load
RECURSIVE LoadRows(_, _)
LoadRows(rows, acc) ==
    IF rows = <<>> THEN acc
    ELSE LET p == ParseLine(LineOf(Head(rows)))
         IN  CASE p.kind = "entry" ->
                    LoadRows(Tail(rows),
                             [acc EXCEPT !.entries = Append(@, p.row)])
               [] p.kind = "blank" -> LoadRows(Tail(rows), acc)
               [] p.kind = "invalid" ->
                    LoadRows(Tail(rows),
                             [acc EXCEPT !.log = Append(@, "INVALID_LINE")])
               [] OTHER ->
                    [ok |-> FALSE, entries |-> acc.entries,
                     log |-> acc.log \o <<"INVALID_DATE", "READ_ERROR">>]

\* the load with its outcome: ok = FALSE when the exception propagates
LoadFile(entries, file) ==
    IF file.exists
    THEN LoadRows(file.rows, [ok |-> TRUE, entries |-> entries, log |-> <<>>])
    ELSE [ok |-> TRUE, entries |-> entries, log |-> <<>>]

RECURSIVE SelectRows(_, _)
SelectRows(rows, sender_email) ==
    IF rows = <<>> THEN <<>>
    ELSE IF ~IsSubstr(sender_email, LineOf(Head(rows)))
         THEN <<Head(rows)>> \o SelectRows(Tail(rows), sender_email)
         ELSE SelectRows(Tail(rows), sender_email)

\* FileManagement.remove_from_waiting_list: keeps the lines in which the
\* address does not occur
remove_from_waiting_list(file, sender_email) ==
    IF ~file.exists THEN file
    ELSE [exists |-> TRUE, rows |-> SelectRows(file.rows, sender_email)]

\* FileManagement.add_to_waiting_list: appends every in-memory entry
add_to_waiting_list(file, entries) ==
    [exists |-> TRUE, rows |-> file.rows \o entries]

\* FileManagement.update_sent_mails_waiting_for_answer_from_file
update_sent_mails_waiting_for_answer_from_file(entries, file) ==
    LoadFile(entries, file).entries

----------------------------------------------------------------------------
(* Message Classifier *)

Keys(entries) == {entries[i].addr : i \in DOMAIN entries}

\* [d[sender] for d in entries if sender in d][0]
sent_time(entries, sender) ==
    entries[CHOOSE i \in DOMAIN entries :
                /\ entries[i].addr = sender
                /\ \A j \in 1..(i - 1) : entries[j].addr # sender].ts

\* (mutation of check_email_response_status: >= instead of >)
check_email_response_status_ge(sender, receiving_time, entries) ==
    IF sender \in Keys(entries) /\ receiving_time >= sent_time(entries, sender)
    THEN "RESPONSE"
    ELSE IF sender \notin Keys(entries) THEN "QUESTION"
    ELSE ""

\* ApiInteraction.check_email_response_status
check_email_response_status(sender, receiving_time, entries) ==
    IF sender \in Keys(entries) /\ receiving_time > sent_time(entries, sender)
    THEN "RESPONSE"
    ELSE IF sender \notin Keys(entries) THEN "QUESTION"
    ELSE ""

----------------------------------------------------------------------------
(* Calendar *)

CALENDAR_OPTIONAL_HOUR_NAME == <<"w">>

NoLocation == <<"<", "n", "o", "n", "e", ">">>

Event(id, start, summary, location) ==
    [id |-> id, start |-> start, summary |-> summary, location |-> location]

evG     == Event(1, DateTime(<<"1">>, <<"8">>), <<"W">>, <<"G">>)
evGA    == Event(2, DateTime(<<"1">>, <<"8">>), <<"w">>, <<"G", "A">>)
evNoLoc == Event(3, DateTime(<<"2">>, <<"8">>), <<"w">>, NoLocation)
evOther == Event(4, DateTime(<<"2">>, <<"9">>), <<"x">>, <<"G">>)

\* what events().list can return
Calendars ==
    {<<>>, <<evOther>>, <<evNoLoc>>, <<evNoLoc, evG, evOther, evGA>>,
     <<evGA, evG>>}

\* (mutation of OptionalHours: a marker-named event is offered whether it
\* has a location or not)
RECURSIVE OptionalHoursAnyLocation(_)
OptionalHoursAnyLocation(evs) ==
    IF evs = <<>> THEN <<>>
    ELSE IF Lower(Head(evs).summary) = CALENDAR_OPTIONAL_HOUR_NAME
         THEN <<<<Head(evs).start, Head(evs).summary, Head(evs).location>>>>
              \o OptionalHoursAnyLocation(Tail(evs))
         ELSE OptionalHoursAnyLocation(Tail(evs))

\* the loop of calendar_stuff under a configured name: the events whose
\* lowered summary equals the name as it is configured, and that have a
\* location
RECURSIVE OptionalHoursFor(_, _)
OptionalHoursFor(evs, name) ==
    IF evs = <<>> THEN <<>>
    ELSE IF /\ Lower(Head(evs).summary) = name
            /\ Head(evs).location # NoLocation
         THEN <<<<Head(evs).start, Head(evs).summary, Head(evs).location>>>>
              \o OptionalHoursFor(Tail(evs), name)
         ELSE OptionalHoursFor(Tail(evs), name)

\* the loop of calendar_stuff: marker-named events that have a location
OptionalHours(evs) == OptionalHoursFor(evs, CALENDAR_OPTIONAL_HOUR_NAME)

\* calendar_stuff logs an error for a marker event without a location
MissingLocationLog(evs) ==
    IF \E i \in DOMAIN evs :
          /\ Lower(evs[i].summary) = CALENDAR_OPTIONAL_HOUR_NAME
          /\ evs[i].location = NoLocation
    THEN {"NO_LOCATION"} ELSE {}

\* (mutation of CalendarStops: only an empty calendar stops the run)
CalendarStopsOnlyEmpty(evs) == evs = <<>>

\* calendar_stuff stops the run when there are no events (sys.exit) or no
\* offered hour (min() of the empty list of dates raises)
CalendarStops(evs) == evs = <<>> \/ OptionalHours(evs) = <<>>

\* the event schedule_workout updates: the first one equal to the choice
EventOf(evs, choice) ==
    CHOOSE i \in DOMAIN evs :
        /\ evs[i].start = choice[1]
        /\ Lower(evs[i].summary) = Lower(choice[2])
        /\ evs[i].location = choice[3]
        /\ \A j \in 1..(i - 1) :
              ~(/\ evs[j].start = choice[1]
                /\ Lower(evs[j].summary) = Lower(choice[2])
                /\ evs[j].location = choice[3])

----------------------------------------------------------------------------
(* One run of Maileg.main *)

Row(a, t) == [addr |-> a, ts |-> t]

File(rows) == [exists |-> TRUE, rows |-> rows]

\* the ledger file when the run starts
InitFiles ==
    {[exists |-> FALSE, rows |-> <<>>],
     File(<<>>),
     File(<<Row(addrA, 1)>>),
     File(<<Row(addrA, 2), Row(addrA, 1)>>),
     File(<<Row(addrBA, 1), Row(addrA, 1)>>),
     File(<<Row(addrA, 1), Row(addrBA, 2)>>),
     File(<<Row(addrBA, 2)>>)}

\* the bodies of the messages of a run
Bodies ==
    {formatted_string(slotG) \o GT,
     formatted_string(slotGA) \o GT \o <<"x">>,
     formatted_string(slotG),
     <<"x", ">">>}

\* config.KEYWORDS
KEYWORDS == {<<"T">>}

\* a message has no Subject header, or one of these subjects
NoSubject == <<>>

Subjects == {<<"x">>, <<"T">>}

\* the messages with a From header that holds an address in angle brackets.
\* hasBody = FALSE: the message has no text part, the dict has no "body" key;
\* hasSubject = FALSE: no Subject header, the dict has no "subject" key
Messages ==
    {[from |-> a, date |-> t, hasBody |-> TRUE, body |-> b,
      hasSubject |-> TRUE, subject |-> s] :
        a \in Addrs, t \in Times, b \in Bodies, s \in Subjects}
    \cup {[from |-> a, date |-> t, hasBody |-> FALSE, body |-> <<>>,
           hasSubject |-> TRUE, subject |-> s] :
        a \in Addrs, t \in Times, s \in Subjects}
    \cup {[from |-> a, date |-> t, hasBody |-> TRUE, body |-> b,
           hasSubject |-> FALSE, subject |-> NoSubject] :
        a \in Addrs, t \in Times, b \in Bodies}
    \cup {[from |-> a, date |-> t, hasBody |-> FALSE, body |-> <<>>,
           hasSubject |-> FALSE, subject |-> NoSubject] :
        a \in Addrs, t \in Times}

\* one_message_keyword_filter.values(): the fields the message has (the To
\* header and the attachment note hold no keyword here)
Values(m) ==
    {m.from, <<DigitChar(m.date)>>}
    \cup (IF m.hasSubject THEN {m.subject} ELSE {})
    \cup (IF m.hasBody THEN {m.body} ELSE {})

\* ApiInteraction.received_message_filer_first_mail
received_message_filer_first_mail(m) ==
    \E keyword \in KEYWORDS : \E value \in Values(m) :
        IsSubstr(Lower(keyword), Lower(value))

\* no message is being processed (read_message rebinds the dict before it is
\* read again)
NoMessage == <<>>

Done(op, who) == [op |-> op, who |-> who]

Init ==
    /\ RAIdle
    /\ PartsIdle
    /\ LgIdle
    /\ RtIdle
    /\ pc = "search"
    /\ total = 0
    /\ n = 0
    /\ one_message_keyword_filter = NoMessage
    /\ response_status = "none"
    /\ sent_mails_waiting_for_answer_or_confirmation = <<>>
    /\ waiting_file \in InitFiles
    /\ events = <<>>
    /\ list_of_optional_hours = <<>>
    /\ calendar_fetches = 0
    /\ mails_to_answer = <<>>
    /\ something_happened = FALSE
    /\ removing_unread_label_blocker = FALSE
    /\ calendar_updates = <<>>
    /\ confirmations = {}
    /\ offers = <<>>
    /\ archive = <<>>
    /\ marked = FALSE
    /\ outcomes = {}
    /\ logged = {}
    /\ formatted_workout_strings = <<>>
    /\ last = Done("none", <<>>)
    /\ without_answering_mode \in BOOLEAN
    /\ prepared = <<>>

\* Maileg.process_emails: search_messages returns the batch
SearchMessages ==
    /\ pc = "search"
    /\ \E k \in 0..MaxMsgs : total' = k
    /\ pc' = "process"
    /\ last' = Done("search", <<>>)
    /\ UNCHANGED <<n, one_message_keyword_filter, response_status,
                   sent_mails_waiting_for_answer_or_confirmation, waiting_file,
                   events, list_of_optional_hours, calendar_fetches,
                   mails_to_answer, something_happened,
                   removing_unread_label_blocker, calendar_updates,
                   confirmations, offers, archive, marked, outcomes, logged, formatted_workout_strings,
                   without_answering_mode, prepared,
                   offRun>>

\* process_individual_email: read_message, then received_email_filters up
\* to the classification (load the ledger when it is empty, classify)
ReceivedEmailFilters ==
    /\ pc = "process"
    /\ n < total
    /\ \E m \in Messages :
        LET entries ==
                IF sent_mails_waiting_for_answer_or_confirmation = <<>>
                THEN update_sent_mails_waiting_for_answer_from_file(
                        sent_mails_waiting_for_answer_or_confirmation,
                        waiting_file)
                ELSE sent_mails_waiting_for_answer_or_confirmation
            status == check_email_response_status(m.from, m.date, entries)
        IN  /\ one_message_keyword_filter' = m
            /\ sent_mails_waiting_for_answer_or_confirmation' = entries
            /\ response_status' = status
            /\ pc' = CASE status = "RESPONSE" -> "response"
                       [] status = "QUESTION" -> "question"
                       [] OTHER -> "neither"
            /\ last' = Done("classify", m.from)
    /\ n' = n + 1
    /\ UNCHANGED <<total, waiting_file, events, list_of_optional_hours,
                   calendar_fetches, mails_to_answer, something_happened,
                   removing_unread_label_blocker, calendar_updates,
                   confirmations, offers, archive, marked, outcomes, logged, formatted_workout_strings,
                   without_answering_mode, prepared,
                   offRun>>

\* received_email_filters, the message has no From header: the error is
\* logged and the message skipped
ReceivedEmailFiltersNoFrom ==
    /\ pc = "process"
    /\ n < total
    /\ n' = n + 1
    /\ logged' = logged \cup {"NO_SENDER"}
    /\ last' = Done("no_sender", <<>>)
    /\ one_message_keyword_filter' = NoMessage
    /\ response_status' = "none"
    /\ UNCHANGED <<pc, total,
                   sent_mails_waiting_for_answer_or_confirmation, waiting_file,
                   events, list_of_optional_hours, calendar_fetches,
                   mails_to_answer, something_happened,
                   removing_unread_label_blocker, calendar_updates,
                   confirmations, offers, archive, marked, outcomes,
                   formatted_workout_strings, without_answering_mode,
                   prepared, offRun>>

\* received_email_filters, the From header holds no address in angle
\* brackets: sender_email is never bound and its test raises
\* UnboundLocalError
ReceivedEmailFiltersBareFrom ==
    /\ pc = "process"
    /\ n < total
    /\ n' = n + 1
    /\ pc' = "crashed"
    /\ last' = Done("sender_unbound", <<>>)
    /\ one_message_keyword_filter' = NoMessage
    /\ response_status' = "none"
    /\ UNCHANGED <<total,
                   sent_mails_waiting_for_answer_or_confirmation, waiting_file,
                   events, list_of_optional_hours, calendar_fetches,
                   mails_to_answer, something_happened,
                   removing_unread_label_blocker, calendar_updates,
                   confirmations, offers, archive, marked, outcomes, logged,
                   formatted_workout_strings, without_answering_mode,
                   prepared, offRun>>

\* the body reading_answers reads: .get("body", "")
BodyOf(m) == IF m.hasBody THEN m.body ELSE <<>>

\* what calendar_stuff logs before it stops the run
StopLog(cal) == IF cal = <<>> THEN {"NO_EVENTS"} ELSE MissingLocationLog(cal)

\* what the step logs when calendar_stuff succeeds (or is not needed): the
\* marker events without a location, the warning that fewer than 15 hours
\* were found, and reading_answers' error when the clean-up of the body raises
FetchLog(cal) ==
    (IF list_of_optional_hours = <<>>
     THEN MissingLocationLog(cal) \cup {"FEW_HOURS"} ELSE {})
    \cup (IF pc = "response"
             /\ ~FilterBody(BodyOf(one_message_keyword_filter)).ok
          THEN {"BODY_ERROR"} ELSE {})

\* handle_response fetches the calendar only while no hour is known
CalChoices == IF list_of_optional_hours = <<>> THEN Calendars ELSE {events}

HoursAfter(cal) ==
    IF list_of_optional_hours = <<>> THEN OptionalHours(cal)
    ELSE list_of_optional_hours

\* calendar_stuff succeeded (or was not needed)
Fetched(cal) ==
    /\ cal \in CalChoices
    /\ list_of_optional_hours = <<>> => ~CalendarStops(cal)
    /\ events' = cal
    /\ list_of_optional_hours' = HoursAfter(cal)
    /\ calendar_fetches' = IF list_of_optional_hours = <<>>
                           THEN calendar_fetches + 1 ELSE calendar_fetches
    /\ logged' = logged \cup FetchLog(cal)

\* the handler returns or raises: the message is not read again
Forget ==
    /\ one_message_keyword_filter' = NoMessage
    /\ response_status' = "none"

\* handle_response: calendar_stuff ends the run
HandleResponseStops ==
    /\ pc = "response"
    /\ list_of_optional_hours = <<>>
    /\ \E cal \in Calendars :
        /\ CalendarStops(cal)
        /\ events' = cal
        /\ logged' = logged \cup StopLog(cal)
    /\ calendar_fetches' = calendar_fetches + 1
    /\ pc' = "stopped"
    /\ last' = Done("calendar_stops", one_message_keyword_filter.from)
    /\ Forget
    /\ UNCHANGED <<total, n,
                   sent_mails_waiting_for_answer_or_confirmation, waiting_file,
                   list_of_optional_hours, mails_to_answer, something_happened,
                   removing_unread_label_blocker, calendar_updates,
                   confirmations, offers, archive, marked, outcomes, formatted_workout_strings,
                   without_answering_mode, prepared,
                   offRun>>

\* the update schedule_workout issues for the chosen slot
Update(cal, choice) ==
    [event |-> cal[EventOf(cal, choice)].id,
     attendee |-> one_message_keyword_filter.from]

\* handle_response, a slot is chosen, schedule_workout: the calendar get or
\* update raises before the update is issued
ScheduleWorkoutUpdateFails ==
    /\ pc = "response"
    /\ \E cal \in CalChoices :
        /\ Fetched(cal)
        /\ reading_answers(BodyOf(one_message_keyword_filter), HoursAfter(cal)) # <<>>
    /\ pc' = "crashed"
    /\ outcomes' = outcomes \cup {"BOOKING_FAILED"}
    /\ last' = Done("update_failed", one_message_keyword_filter.from)
    /\ Forget
    /\ UNCHANGED <<total, n,
                   sent_mails_waiting_for_answer_or_confirmation, waiting_file,
                   mails_to_answer, something_happened,
                   removing_unread_label_blocker, calendar_updates,
                   confirmations, offers, archive, marked, formatted_workout_strings,
                   without_answering_mode, prepared,
                   offRun>>

\* handle_response, schedule_workout updates the event, sending_confirmation:
\* send_message raises after its retries
SendingConfirmationFails ==
    /\ pc = "response"
    /\ \E cal \in CalChoices :
        /\ Fetched(cal)
        /\ LET choice == reading_answers(BodyOf(one_message_keyword_filter),
                                         HoursAfter(cal))
           IN  /\ choice # <<>>
               /\ calendar_updates' = Append(calendar_updates, Update(cal, choice))
    /\ pc' = "crashed"
    /\ outcomes' = outcomes \cup {"BOOKING_FAILED"}
    /\ last' = Done("send_failed", one_message_keyword_filter.from)
    /\ Forget
    /\ UNCHANGED <<total, n,
                   sent_mails_waiting_for_answer_or_confirmation, waiting_file,
                   mails_to_answer, something_happened,
                   removing_unread_label_blocker, confirmations, offers,
                   archive, marked, formatted_workout_strings,
                   without_answering_mode, prepared,
                   offRun>>

\* handle_response, schedule_workout, sending_confirmation all succeed:
\* event updated, confirmation sent, rows removed from the file
HandleResponseBooked ==
    /\ pc = "response"
    /\ \E cal \in CalChoices :
        /\ Fetched(cal)
        /\ LET choice == reading_answers(BodyOf(one_message_keyword_filter),
                                         HoursAfter(cal))
           IN  /\ choice # <<>>
               /\ calendar_updates' = Append(calendar_updates, Update(cal, choice))
    /\ confirmations' = confirmations \cup {one_message_keyword_filter.from}
    /\ something_happened' = TRUE
    /\ waiting_file' = remove_from_waiting_list(waiting_file,
                                                one_message_keyword_filter.from)
    /\ pc' = "process"
    /\ outcomes' = outcomes \cup {"MATCHED"}
    /\ last' = Done("booked", one_message_keyword_filter.from)
    /\ Forget
    /\ UNCHANGED <<total, n,
                   sent_mails_waiting_for_answer_or_confirmation,
                   mails_to_answer, removing_unread_label_blocker, offers,
                   archive, marked, formatted_workout_strings,
                   without_answering_mode, prepared,
                   offRun>>

\* (mutation of HandleResponseUnmatched: the sender's rows are removed and
\* the blocker is left alone)
HandleResponseUnmatchedRemoves ==
    /\ pc = "response"
    /\ \E cal \in CalChoices :
        /\ Fetched(cal)
        /\ reading_answers(BodyOf(one_message_keyword_filter), HoursAfter(cal)) = <<>>
    /\ something_happened' = TRUE
    /\ waiting_file' = remove_from_waiting_list(waiting_file,
                                                one_message_keyword_filter.from)
    /\ pc' = IF one_message_keyword_filter.hasBody THEN "process" ELSE "crashed"
    /\ outcomes' = outcomes \cup {"UNMATCHED"}
    /\ last' = Done("unmatched", one_message_keyword_filter.from)
    /\ Forget
    /\ UNCHANGED <<total, n, removing_unread_label_blocker,
                   sent_mails_waiting_for_answer_or_confirmation,
                   mails_to_answer, calendar_updates, confirmations, offers,
                   archive, marked, formatted_workout_strings,
                   without_answering_mode, prepared,
                   offRun>>

\* handle_response, no slot is chosen: both flags are set; printing the body
\* raises KeyError when the message has no body
HandleResponseUnmatched ==
    /\ pc = "response"
    /\ \E cal \in CalChoices :
        /\ Fetched(cal)
        /\ reading_answers(BodyOf(one_message_keyword_filter), HoursAfter(cal)) = <<>>
    /\ something_happened' = TRUE
    /\ removing_unread_label_blocker' = TRUE
    /\ pc' = IF one_message_keyword_filter.hasBody THEN "process" ELSE "crashed"
    /\ outcomes' = outcomes \cup {"UNMATCHED"}
    /\ last' = Done("unmatched", one_message_keyword_filter.from)
    /\ Forget
    /\ UNCHANGED <<total, n,
                   sent_mails_waiting_for_answer_or_confirmation, waiting_file,
                   mails_to_answer, calendar_updates, confirmations, offers,
                   archive, marked, formatted_workout_strings,
                   without_answering_mode, prepared,
                   offRun>>

\* handle_new_message: a keyword is found and the message has no Subject
\* header; the lookup of "subject" raises KeyError
HandleNewMessageNoSubject ==
    /\ pc = "question"
    /\ received_message_filer_first_mail(one_message_keyword_filter)
    /\ ~one_message_keyword_filter.hasSubject
    /\ pc' = "crashed"
    /\ outcomes' = outcomes \cup {"QUESTION"}
    /\ last' = Done("subject_missing", one_message_keyword_filter.from)
    /\ Forget
    /\ UNCHANGED <<total, n, mails_to_answer, archive, something_happened,
                   sent_mails_waiting_for_answer_or_confirmation, waiting_file,
                   events, list_of_optional_hours, calendar_fetches,
                   removing_unread_label_blocker, calendar_updates,
                   confirmations, offers, marked, logged,
                   formatted_workout_strings, without_answering_mode,
                   prepared, offRun>>

\* handle_new_message: when received_message_filer_first_mail finds a
\* keyword the inquiry is enqueued and archived
HandleNewMessage ==
    /\ pc = "question"
    /\ ~(/\ received_message_filer_first_mail(one_message_keyword_filter)
         /\ ~one_message_keyword_filter.hasSubject)
    /\ IF received_message_filer_first_mail(one_message_keyword_filter)
       THEN /\ mails_to_answer' =
                 Append(mails_to_answer, one_message_keyword_filter.from)
            /\ archive' = Append(archive, n)
            /\ something_happened' = TRUE
            /\ last' = Done("enqueued", one_message_keyword_filter.from)
       ELSE /\ UNCHANGED <<mails_to_answer, archive, something_happened>>
            /\ last' = Done("no_keyword", one_message_keyword_filter.from)
    /\ pc' = "process"
    /\ outcomes' = outcomes \cup {"QUESTION"}
    /\ Forget
    /\ UNCHANGED <<total, n,
                   sent_mails_waiting_for_answer_or_confirmation, waiting_file,
                   events, list_of_optional_hours, calendar_fetches,
                   removing_unread_label_blocker, calendar_updates,
                   confirmations, offers, marked, logged, formatted_workout_strings,
                   without_answering_mode, prepared,
                   offRun>>

\* (mutation of NeitherResponseNorQuestion: the run notes that something
\* happened)
NeitherResponseNorQuestionFlags ==
    /\ pc = "neither"
    /\ pc' = "process"
    /\ something_happened' = TRUE
    /\ outcomes' = outcomes \cup {"INDETERMINATE"}
    /\ last' = Done("dropped", one_message_keyword_filter.from)
    /\ Forget
    /\ UNCHANGED <<total, n,
                   sent_mails_waiting_for_answer_or_confirmation, waiting_file,
                   events, list_of_optional_hours, calendar_fetches,
                   mails_to_answer,
                   removing_unread_label_blocker, calendar_updates,
                   confirmations, offers, archive, marked, logged, formatted_workout_strings,
                   without_answering_mode, prepared,
                   offRun>>

\* received_email_filters, status "": neither branch is taken
NeitherResponseNorQuestion ==
    /\ pc = "neither"
    /\ pc' = "process"
    /\ outcomes' = outcomes \cup {"INDETERMINATE"}
    /\ last' = Done("dropped", one_message_keyword_filter.from)
    /\ Forget
    /\ UNCHANGED <<total, n,
                   sent_mails_waiting_for_answer_or_confirmation, waiting_file,
                   events, list_of_optional_hours, calendar_fetches,
                   mails_to_answer, something_happened,
                   removing_unread_label_blocker, calendar_updates,
                   confirmations, offers, archive, marked, logged, formatted_workout_strings,
                   without_answering_mode, prepared,
                   offRun>>

\* (mutation of prepare_workout_options: the lines are in reverse order)
prepare_workout_options_reversed(hours) ==
    IF formatted_workout_strings # <<>> THEN formatted_workout_strings
    ELSE [i \in DOMAIN hours |-> formatted_string(hours[Len(hours) + 1 - i])]

\* ApiInteraction.prepare_workout_options: one line for each offered hour,
\* in the order of the list; the lines are computed once
prepare_workout_options(hours) ==
    IF formatted_workout_strings # <<>> THEN formatted_workout_strings
    ELSE [i \in DOMAIN hours |-> formatted_string(hours[i])]

\* the ledger entries appended for the first k enqueued inquiries
NewEntries(k, now) == [i \in 1..k |-> Row(mails_to_answer[i], now)]

\* Maileg.answering_to_mails: nothing was enqueued
AnsweringNothing ==
    /\ pc = "process"
    /\ n = total
    /\ mails_to_answer = <<>>
    /\ pc' = "mark"
    /\ last' = Done("answer_nothing", <<>>)
    /\ UNCHANGED <<total, n, one_message_keyword_filter, response_status,
                   sent_mails_waiting_for_answer_or_confirmation, waiting_file,
                   events, list_of_optional_hours, calendar_fetches,
                   mails_to_answer, something_happened,
                   removing_unread_label_blocker, calendar_updates,
                   confirmations, offers, archive, marked, outcomes, logged, formatted_workout_strings,
                   without_answering_mode, prepared,
                   offRun>>

\* answering_to_first_mails: calendar_stuff ends the run
AnsweringStops ==
    /\ pc = "process"
    /\ n = total
    /\ mails_to_answer # <<>>
    /\ list_of_optional_hours = <<>>
    /\ \E cal \in Calendars :
        /\ CalendarStops(cal)
        /\ events' = cal
        /\ logged' = logged \cup StopLog(cal)
    /\ calendar_fetches' = calendar_fetches + 1
    /\ pc' = "stopped"
    /\ last' = Done("calendar_stops", <<>>)
    /\ UNCHANGED <<total, n, one_message_keyword_filter, response_status,
                   sent_mails_waiting_for_answer_or_confirmation, waiting_file,
                   list_of_optional_hours, mails_to_answer, something_happened,
                   removing_unread_label_blocker, calendar_updates,
                   confirmations, offers, archive, marked, outcomes, formatted_workout_strings,
                   without_answering_mode, prepared,
                   offRun>>

\* (mutation of AnsweringSendFails: the entry of the inquiry whose send
\* failed is appended too)
AnsweringSendFailsAppends ==
    /\ pc = "process"
    /\ n = total
    /\ mails_to_answer # <<>>
    /\ ~without_answering_mode
    /\ \E cal \in CalChoices :
        /\ Fetched(cal)
        /\ formatted_workout_strings' = prepare_workout_options(HoursAfter(cal))
    /\ \E k \in 1..Len(mails_to_answer), now \in Times :
        /\ offers' = offers \o SubSeq(mails_to_answer, 1, k - 1)
        /\ sent_mails_waiting_for_answer_or_confirmation' =
              sent_mails_waiting_for_answer_or_confirmation
                  \o NewEntries(k, now)
    /\ pc' = "crashed"
    /\ last' = Done("offer_failed", <<>>)
    /\ UNCHANGED <<total, n, one_message_keyword_filter, response_status,
                   waiting_file, mails_to_answer, something_happened,
                   removing_unread_label_blocker, calendar_updates,
                   confirmations, archive, marked, outcomes, without_answering_mode, prepared,
                   offRun>>

\* answering_to_first_mails: send_message raises for the k-th inquiry, after
\* k - 1 offers were sent and appended in memory; nothing is flushed
AnsweringSendFails ==
    /\ pc = "process"
    /\ n = total
    /\ mails_to_answer # <<>>
    /\ ~without_answering_mode
    /\ \E cal \in CalChoices :
        /\ Fetched(cal)
        /\ formatted_workout_strings' = prepare_workout_options(HoursAfter(cal))
    /\ \E k \in 1..Len(mails_to_answer), now \in Times :
        /\ offers' = offers \o SubSeq(mails_to_answer, 1, k - 1)
        /\ sent_mails_waiting_for_answer_or_confirmation' =
              sent_mails_waiting_for_answer_or_confirmation
                  \o NewEntries(k - 1, now)
    /\ pc' = "crashed"
    /\ last' = Done("offer_failed", <<>>)
    /\ UNCHANGED <<total, n, one_message_keyword_filter, response_status,
                   waiting_file, mails_to_answer, something_happened,
                   removing_unread_label_blocker, calendar_updates,
                   confirmations, archive, marked, outcomes, without_answering_mode, prepared,
                   offRun>>

\* answering_to_first_mails: every offer is sent and appended, then
\* add_to_waiting_list writes the in-memory entries to the file
AnsweringSent ==
    /\ pc = "process"
    /\ n = total
    /\ mails_to_answer # <<>>
    /\ ~without_answering_mode
    /\ \E cal \in CalChoices :
        /\ Fetched(cal)
        /\ formatted_workout_strings' = prepare_workout_options(HoursAfter(cal))
    /\ \E now \in Times :
        /\ sent_mails_waiting_for_answer_or_confirmation' =
              sent_mails_waiting_for_answer_or_confirmation
                  \o NewEntries(Len(mails_to_answer), now)
        /\ waiting_file' =
              add_to_waiting_list(waiting_file,
                  sent_mails_waiting_for_answer_or_confirmation
                      \o NewEntries(Len(mails_to_answer), now))
    /\ offers' = offers \o mails_to_answer
    /\ pc' = "mark"
    /\ last' = Done("offers_sent", <<>>)
    /\ UNCHANGED <<total, n, one_message_keyword_filter, response_status,
                   mails_to_answer, something_happened,
                   removing_unread_label_blocker, calendar_updates,
                   confirmations, archive, marked, outcomes, without_answering_mode, prepared,
                   offRun>>

\* the seconds at which the responses of a batch are written: the clock
\* does not go back
WriteStamps(k) ==
    {stamps \in [1..k -> Times] :
        \A i \in 1..(k - 1) : stamps[i] <= stamps[i + 1]}

\* (mutation of AnsweringPrepared: the entries are appended and flushed as
\* in the sending mode)
AnsweringPreparedAppends ==
    /\ pc = "process"
    /\ n = total
    /\ mails_to_answer # <<>>
    /\ without_answering_mode
    /\ \E cal \in CalChoices :
        /\ Fetched(cal)
        /\ formatted_workout_strings' = prepare_workout_options(HoursAfter(cal))
    /\ \E stamps \in WriteStamps(Len(mails_to_answer)) :
        /\ prepared' = prepared \o
              [i \in DOMAIN mails_to_answer |->
                  [file |-> stamps[i], to |-> mails_to_answer[i]]]
        /\ waiting_file' =
              add_to_waiting_list(waiting_file,
                  sent_mails_waiting_for_answer_or_confirmation
                      \o NewEntries(Len(mails_to_answer), stamps[1]))
    /\ pc' = "mark"
    /\ last' = Done("offers_prepared", <<>>)
    /\ UNCHANGED <<total, n, one_message_keyword_filter, response_status,
                   sent_mails_waiting_for_answer_or_confirmation,
                   mails_to_answer, something_happened,
                   removing_unread_label_blocker, calendar_updates,
                   confirmations, offers, archive, marked, outcomes,
                   without_answering_mode, offRun>>

\* answering_to_first_mails with --without_answering: for each inquiry the
\* response is written to the file named by the second of the clock;
\* nothing is sent, appended or flushed
AnsweringPrepared ==
    /\ pc = "process"
    /\ n = total
    /\ mails_to_answer # <<>>
    /\ without_answering_mode
    /\ \E cal \in CalChoices :
        /\ Fetched(cal)
        /\ formatted_workout_strings' = prepare_workout_options(HoursAfter(cal))
    /\ \E stamps \in WriteStamps(Len(mails_to_answer)) :
        prepared' = prepared \o
            [i \in DOMAIN mails_to_answer |->
                [file |-> stamps[i], to |-> mails_to_answer[i]]]
    /\ pc' = "mark"
    /\ last' = Done("offers_prepared", <<>>)
    /\ UNCHANGED <<total, n, one_message_keyword_filter, response_status,
                   sent_mails_waiting_for_answer_or_confirmation, waiting_file,
                   mails_to_answer, something_happened,
                   removing_unread_label_blocker, calendar_updates,
                   confirmations, offers, archive, marked, outcomes,
                   without_answering_mode, offRun>>

\* (mutation of RemovingUnreadLabel: the blocker is not consulted)
RemovingUnreadLabelAlways ==
    /\ pc = "mark"
    /\ marked' = TRUE
    /\ pc' = "done"
    /\ last' = Done("mark", <<>>)
    /\ UNCHANGED <<total, n, one_message_keyword_filter, response_status,
                   sent_mails_waiting_for_answer_or_confirmation, waiting_file,
                   events, list_of_optional_hours, calendar_fetches,
                   mails_to_answer, something_happened,
                   removing_unread_label_blocker, calendar_updates,
                   confirmations, offers, archive, outcomes, logged, formatted_workout_strings,
                   without_answering_mode, prepared,
                   offRun>>

\* Maileg.removing_unread_label: mark_as_read unless the blocker is set
RemovingUnreadLabel ==
    /\ pc = "mark"
    /\ marked' = (removing_unread_label_blocker = FALSE)
    /\ pc' = "done"
    /\ last' = Done("mark", <<>>)
    /\ UNCHANGED <<total, n, one_message_keyword_filter, response_status,
                   sent_mails_waiting_for_answer_or_confirmation, waiting_file,
                   events, list_of_optional_hours, calendar_fetches,
                   mails_to_answer, something_happened,
                   removing_unread_label_blocker, calendar_updates,
                   confirmations, offers, archive, outcomes, logged, formatted_workout_strings,
                   without_answering_mode, prepared,
                   offRun>>

Next ==
    \/ SearchMessages
    \/ ReceivedEmailFilters
    \/ ReceivedEmailFiltersNoFrom
    \/ ReceivedEmailFiltersBareFrom
    \/ HandleResponseStops
    \/ ScheduleWorkoutUpdateFails
    \/ SendingConfirmationFails
    \/ HandleResponseBooked
    \/ HandleResponseUnmatched
    \/ HandleNewMessage
    \/ HandleNewMessageNoSubject
    \/ NeitherResponseNorQuestion
    \/ AnsweringNothing
    \/ AnsweringStops
    \/ AnsweringSendFails
    \/ AnsweringSent
    \/ AnsweringPrepared
    \/ RemovingUnreadLabel

Spec == Init /\ [][Next]_vars

----------------------------------------------------------------------------
(* The ledger on its own: one FileManagement object, its file, and the
   operations load, append, flush and remove in any order *)

\* the file before the first operation: rows of earlier runs, and lines that
\* no flush wrote (no colon; blank; a date that no format matches)
LedgerFiles ==
    {[exists |-> FALSE, rows |-> <<>>],
     File(<<>>),
     File(<<Row(addrA, 1)>>),
     File(<<Row(addrBA, 1), Row(addrA, 2)>>),
     File(<<Row(addrA, 1), Row(addrA, 2)>>),
     File(<<Raw(<<"x">>), Row(addrA, 1), Raw(<<" ">>), Row(addrBA, 2)>>),
     File(<<Row(addrBA, 1), Raw(<<"a", ":", " ", "x">>), Row(addrA, 2)>>)}

\* datetime.now(): later than every timestamp of the initial file
Now == MaxTime + lg_ops

LgDone(op, who) == [op |-> op, who |-> who]

InitLedger ==
    /\ RunIdle
    /\ PartsIdle
    /\ RAIdle
    /\ RtIdle
    /\ lg_pc = "ready"
    /\ lg_file \in LedgerFiles
    /\ lg_mem = <<>>
    /\ lg_new = 0
    /\ lg_ops = 0
    /\ lg_log = <<>>
    /\ lg_last = LgDone("none", <<>>)

\* (mutation of LgLoad: the file is loaded whether or not the in-memory
\* list is empty)
LgLoadAnytime ==
    /\ lg_pc = "ready"
    /\ lg_ops < MaxOps
    /\ LET loaded == LoadFile(lg_mem, lg_file)
       IN  /\ lg_mem' = loaded.entries
           /\ lg_log' = loaded.log
           /\ lg_pc' = IF loaded.ok THEN "ready" ELSE "aborted"
    /\ lg_ops' = lg_ops + 1
    /\ lg_last' = LgDone("load", <<>>)
    /\ UNCHANGED <<lg_file, lg_new, offLedger>>

\* update_sent_mails_waiting_for_answer_from_file, called as
\* received_email_filters calls it: while the in-memory list is empty
LgLoad ==
    /\ lg_pc = "ready"
    /\ lg_ops < MaxOps
    /\ lg_mem = <<>>
    /\ LET loaded == LoadFile(lg_mem, lg_file)
       IN  /\ lg_mem' = loaded.entries
           /\ lg_log' = loaded.log
           /\ lg_pc' = IF loaded.ok THEN "ready" ELSE "aborted"
    /\ lg_ops' = lg_ops + 1
    /\ lg_last' = LgDone("load", <<>>)
    /\ UNCHANGED <<lg_file, lg_new, offLedger>>

\* answering_to_first_mails appends an entry after an offer was sent
LgAppend ==
    /\ lg_pc = "ready"
    /\ lg_ops < MaxOps
    /\ \E a \in Addrs :
        /\ lg_mem' = Append(lg_mem, Row(a, Now))
        /\ lg_last' = LgDone("append", a)
    /\ lg_new' = lg_new + 1
    /\ lg_ops' = lg_ops + 1
    /\ UNCHANGED <<lg_pc, lg_file, lg_log, offLedger>>

\* add_to_waiting_list
LgFlush ==
    /\ lg_pc = "ready"
    /\ lg_ops < MaxOps
    /\ lg_file' = add_to_waiting_list(lg_file, lg_mem)
    /\ lg_new' = 0
    /\ lg_ops' = lg_ops + 1
    /\ lg_last' = LgDone("flush", <<>>)
    /\ UNCHANGED <<lg_pc, lg_mem, lg_log, offLedger>>

\* remove_from_waiting_list
LgRemove ==
    /\ lg_pc = "ready"
    /\ lg_ops < MaxOps
    /\ \E a \in Addrs :
        /\ lg_file' = remove_from_waiting_list(lg_file, a)
        /\ lg_last' = LgDone("remove", a)
    /\ lg_ops' = lg_ops + 1
    /\ UNCHANGED <<lg_pc, lg_mem, lg_new, lg_log, offLedger>>

\* the process ends and the next one constructs its FileManagement: the
\* in-memory list is empty again, the file stays
LgFresh ==
    /\ lg_pc \in {"ready", "aborted"}
    /\ lg_ops < MaxOps
    /\ lg_last.op \notin {"none", "fresh"}
    /\ lg_pc' = "ready"
    /\ lg_mem' = <<>>
    /\ lg_new' = 0
    /\ lg_ops' = lg_ops + 1
    /\ lg_last' = LgDone("fresh", <<>>)
    /\ UNCHANGED <<lg_file, lg_log, offLedger>>

NextLedger == LgLoad \/ LgAppend \/ LgFlush \/ LgRemove \/ LgFresh

SpecLedger == InitLedger /\ [][NextLedger]_vars

----------------------------------------------------------------------------
(* calendar_stuff on its own: one configured name, one calendar *)

\* how the name can be written in config.py
ConfiguredNames == {<<"w">>, <<"W">>}

\* events with every casing of the summary, with and without a location
CalendarEvents ==
    {Event(5, DateTime(<<"1">>, <<"8">>), summary, location) :
        summary \in {<<"w">>, <<"W">>, <<"x">>},
        location \in {<<"G">>, NoLocation}}

InitCalendar ==
    /\ RunIdle
    /\ RAIdle
    /\ LgIdle
    /\ RtIdle
    /\ DtIdle
    /\ MbIdle
    /\ FlIdle
    /\ RnIdle
    /\ cl_pc = "start"
    /\ cl_name \in ConfiguredNames
    /\ cl_events \in SeqsUpTo(CalendarEvents, MaxSlots)
    /\ cl_hours = <<>>

\* calendar_stuff: the offered hours are collected; the run stops when
\* there is no event or no offered hour
CalendarStuff ==
    /\ cl_pc = "start"
    /\ cl_hours' = OptionalHoursFor(cl_events, cl_name)
    /\ cl_pc' = IF cl_events = <<>> \/ OptionalHoursFor(cl_events, cl_name) = <<>>
                THEN "stopped" ELSE "done"
    /\ UNCHANGED <<cl_name, cl_events, offCalendar>>

NextCalendar == CalendarStuff

SpecCalendar == InitCalendar /\ [][NextCalendar]_vars

----------------------------------------------------------------------------
(* The receipt time: two Date headers classified against one entry *)

\* the zone offsets of a Date header, in hours
Zones == {0, 1, 2}

\* a Date header: the wall-clock time it shows and its zone offset
Headers == {[wall |-> w, zone |-> z] : w \in Times, z \in Zones}

\* UtilityFunctions.format_date: the header is parsed with its zone, two
\* hours are added when the zone is +0000, and the wall-clock time is
\* written without the zone
format_date(value) ==
    IF value.zone = 0 THEN <<DigitChar(value.wall + 2)>>
    ELSE <<DigitChar(value.wall)>>

InitDate ==
    /\ RunIdle
    /\ RAIdle
    /\ LgIdle
    /\ RtIdle
    /\ ClIdle
    /\ MbIdle
    /\ FlIdle
    /\ RnIdle
    /\ dt_pc = "start"
    /\ dt_headers \in [1..2 -> Headers]
    /\ dt_entry \in Times
    /\ dt_receipts = <<>>
    /\ dt_statuses = <<>>

\* parse_headers stores format_date of the Date header, and
\* check_email_response_status parses that text and classifies
ClassifyHeaders ==
    /\ dt_pc = "start"
    /\ dt_pc' = "done"
    /\ dt_receipts' =
          [i \in 1..2 |-> string_to_datetime(format_date(dt_headers[i])).value]
    /\ dt_statuses' =
          [i \in 1..2 |->
              check_email_response_status(
                  addrA,
                  string_to_datetime(format_date(dt_headers[i])).value,
                  <<Row(addrA, dt_entry)>>)]
    /\ UNCHANGED <<dt_headers, dt_entry, offDate>>

NextDate == ClassifyHeaders

SpecDate == InitDate /\ [][NextDate]_vars

----------------------------------------------------------------------------
(* handle_api_errors: one call of a wrapped function *)

MAX_RETRIES == 3

\* what one attempt of the wrapped function does: it returns, raises
\* HttpError with a status, or raises another exception
AttemptOutcomes == {"ok", "http500", "http503", "http403", "http404", "error"}

Retryable(outcome) == outcome \in {"http500", "http503"}

RECURSIVE Pow2(_)
Pow2(k) == IF k = 0 THEN 1 ELSE 2 * Pow2(k - 1)

InitRetry ==
    /\ RunIdle
    /\ PartsIdle
    /\ RAIdle
    /\ LgIdle
    /\ rt_pc = "loop"
    /\ rt_script \in [1..MAX_RETRIES -> AttemptOutcomes]
    /\ rt_attempt = 0
    /\ rt_calls = 0
    /\ rt_delays = <<>>
    /\ last_exception = "None"
    /\ rt_result = "None"

\* (mutation of RtAttempt: status 403 is retried like 500 and 503)
RtAttemptRetries403 ==
    /\ rt_pc = "loop"
    /\ rt_attempt < MAX_RETRIES
    /\ rt_calls' = rt_calls + 1
    /\ LET outcome == rt_script[rt_attempt + 1]
       IN  IF outcome = "ok"
           THEN /\ rt_pc' = "returned"
                /\ rt_result' = "value"
                /\ UNCHANGED <<rt_attempt, rt_delays, last_exception>>
           ELSE /\ last_exception' = outcome
                /\ rt_result' = rt_result
                /\ IF Retryable(outcome) \/ outcome = "http403"
                   THEN /\ rt_delays' = Append(rt_delays, Pow2(rt_attempt))
                        /\ rt_attempt' = rt_attempt + 1
                        /\ rt_pc' = IF rt_attempt + 1 < MAX_RETRIES
                                    THEN "loop" ELSE "after"
                   ELSE /\ rt_pc' = "after"
                        /\ UNCHANGED <<rt_attempt, rt_delays>>
    /\ UNCHANGED <<rt_script, offRetry>>

\* one iteration of the for loop: the wrapped function is called; its
\* result is returned, or the exception is kept and, for status 500 or 503,
\* the wrapper sleeps 2**attempt seconds and goes on; any other failure
\* leaves the loop
RtAttempt ==
    /\ rt_pc = "loop"
    /\ rt_attempt < MAX_RETRIES
    /\ rt_calls' = rt_calls + 1
    /\ LET outcome == rt_script[rt_attempt + 1]
       IN  IF outcome = "ok"
           THEN /\ rt_pc' = "returned"
                /\ rt_result' = "value"
                /\ UNCHANGED <<rt_attempt, rt_delays, last_exception>>
           ELSE /\ last_exception' = outcome
                /\ rt_result' = rt_result
                /\ IF Retryable(outcome)
                   THEN /\ rt_delays' = Append(rt_delays, Pow2(rt_attempt))
                        /\ rt_attempt' = rt_attempt + 1
                        /\ rt_pc' = IF rt_attempt + 1 < MAX_RETRIES
                                    THEN "loop" ELSE "after"
                   ELSE /\ rt_pc' = "after"
                        /\ UNCHANGED <<rt_attempt, rt_delays>>
    /\ UNCHANGED <<rt_script, offRetry>>

\* after the loop: the last caught exception is raised
RtAfterLoop ==
    /\ rt_pc = "after"
    /\ rt_pc' = IF last_exception # "None" THEN "raised" ELSE "returned"
    /\ UNCHANGED <<rt_script, rt_attempt, rt_calls, rt_delays, last_exception,
                   rt_result, offRetry>>

NextRetry == RtAttempt \/ RtAfterLoop

SpecRetry == InitRetry /\ [][NextRetry]_vars

----------------------------------------------------------------------------
(* The mailbox steps of a run: search_messages in process_emails, then
   mark_as_read, each under handle_api_errors.  A failing transport call
   fails with status 503. *)

\* the result pages of the message list: message ids, page by page
Mailboxes == {<< <<>> >>, << <<1>> >>, << <<1>>, <<2>> >>, << <<1, 2>> >>}

InitMail ==
    /\ RunIdle
    /\ RAIdle
    /\ LgIdle
    /\ RtIdle
    /\ ClIdle
    /\ DtIdle
    /\ FlIdle
    /\ RnIdle
    /\ mb_pc = "search"
    /\ mb_pages \in Mailboxes
    /\ mb_failures \in 0..MaxFailures
    /\ messages = <<>>
    /\ mb_page = 0
    /\ mb_attempt = 0
    /\ mb_outer = 0
    /\ mb_failed = 0
    /\ mb_classified = <<>>
    /\ mb_marked = <<>>

\* search_messages: one list call answers; its messages extend
\* self.messages, and the next page is asked for or self.messages returned
MbListOk ==
    /\ mb_pc \in {"search", "mark_search"}
    /\ messages' = messages \o mb_pages[mb_page + 1]
    /\ IF mb_page + 1 < Len(mb_pages)
       THEN /\ mb_page' = mb_page + 1
            /\ UNCHANGED <<mb_pc, mb_attempt>>
       ELSE /\ mb_page' = 0
            /\ mb_attempt' = 0
            /\ mb_pc' = IF mb_pc = "search" THEN "read"
                        ELSE IF messages' = <<>> THEN "done"
                        ELSE "modify"
    /\ UNCHANGED <<mb_pages, mb_failures, mb_outer, mb_failed,
                   mb_classified, mb_marked, offMailbox>>

\* search_messages: one list call fails; the wrapper of search_messages
\* calls it again from the first page, or raises after MAX_RETRIES
\* attempts; inside mark_as_read the wrapper of mark_as_read catches that
\* and calls mark_as_read again, or raises after MAX_RETRIES attempts
MbListFails ==
    /\ mb_pc \in {"search", "mark_search"}
    /\ mb_failures > 0
    /\ mb_failures' = mb_failures - 1
    /\ mb_failed' = mb_failed + 1
    /\ mb_page' = 0
    /\ IF mb_attempt + 1 < MAX_RETRIES
       THEN /\ mb_attempt' = mb_attempt + 1
            /\ UNCHANGED <<mb_pc, mb_outer>>
       ELSE /\ mb_attempt' = 0
            /\ IF mb_pc = "mark_search" /\ mb_outer + 1 < MAX_RETRIES
               THEN /\ mb_outer' = mb_outer + 1
                    /\ UNCHANGED mb_pc
               ELSE /\ mb_pc' = "raised"
                    /\ UNCHANGED mb_outer
    /\ UNCHANGED <<mb_pages, messages, mb_classified, mb_marked,
                   offMailbox>>

\* process_individual_email: the next handle of the results is read and
\* classified
MbRead ==
    /\ mb_pc = "read"
    /\ Len(mb_classified) < Len(messages)
    /\ mb_classified' =
          Append(mb_classified, messages[Len(mb_classified) + 1])
    /\ UNCHANGED <<mb_pc, mb_pages, mb_failures, messages, mb_page,
                   mb_attempt, mb_outer, mb_failed, mb_marked, offMailbox>>

\* the id of a message that is delivered while the run is under way
LateMessage == 3

\* a message is delivered after the search of process_emails returned: it
\* is unread, and a later list call with the same query returns it
MbArrives ==
    /\ mb_pc = "read"
    /\ \A i \in DOMAIN mb_pages : \A j \in DOMAIN mb_pages[i] :
          mb_pages[i][j] # LateMessage
    /\ mb_pages' = [mb_pages EXCEPT ![Len(mb_pages)] = Append(@, LateMessage)]
    /\ UNCHANGED <<mb_pc, mb_failures, messages, mb_page, mb_attempt,
                   mb_outer, mb_failed, mb_classified, mb_marked, offMailbox>>

\* removing_unread_label: after the last handle mark_as_read is called
MbMarkAsRead ==
    /\ mb_pc = "read"
    /\ Len(mb_classified) = Len(messages)
    /\ mb_pc' = "mark_search"
    /\ mb_page' = 0
    /\ mb_attempt' = 0
    /\ mb_outer' = 0
    /\ mb_failed' = 0
    /\ UNCHANGED <<mb_pages, mb_failures, messages, mb_classified,
                   mb_marked, offMailbox>>

\* mark_as_read: batchModify answers
MbModifyOk ==
    /\ mb_pc = "modify"
    /\ mb_marked' = messages
    /\ mb_pc' = "done"
    /\ UNCHANGED <<mb_pages, mb_failures, messages, mb_page, mb_attempt,
                   mb_outer, mb_failed, mb_classified, offMailbox>>

\* mark_as_read: batchModify fails; the wrapper of mark_as_read calls it
\* again, or raises after MAX_RETRIES attempts
MbModifyFails ==
    /\ mb_pc = "modify"
    /\ mb_failures > 0
    /\ mb_failures' = mb_failures - 1
    /\ mb_failed' = mb_failed + 1
    /\ IF mb_outer + 1 < MAX_RETRIES
       THEN /\ mb_outer' = mb_outer + 1
            /\ mb_pc' = "mark_search"
       ELSE /\ mb_pc' = "raised"
            /\ UNCHANGED mb_outer
    /\ UNCHANGED <<mb_pages, messages, mb_page, mb_attempt, mb_classified,
                   mb_marked, offMailbox>>

NextMail ==
    \/ MbListOk
    \/ MbListFails
    \/ MbRead
    \/ MbArrives
    \/ MbMarkAsRead
    \/ MbModifyOk
    \/ MbModifyFails

SpecMail == InitMail /\ [][NextMail]_vars

----------------------------------------------------------------------------
(* The text of the ledger file: flush, remove and load on the characters of
   mails_waiting_for_answer.txt *)

\* an in-memory entry: loaded = TRUE when the load put it there (its
\* timestamp is a datetime), FALSE when answering_to_first_mails appended
\* it (its timestamp is the text strftime gave)
Entry(a, t, loaded) == [addr |-> a, ts |-> t, loaded |-> loaded]

\* f"{date_of_response}"
StampText(entry) ==
    IF entry.loaded THEN <<"-", DigitChar(entry.ts)>>
    ELSE <<DigitChar(entry.ts)>>

\* (mutation of EntryText: the entry is written without the newline in
\* front)
EntryTextNoNewline(entry) ==
    <<" ", " ">> \o entry.addr \o <<":", " ">> \o StampText(entry)

\* f"\n  {customers_mail}: {date_of_response}"
EntryText(entry) ==
    <<NL, " ", " ">> \o entry.addr \o <<":", " ">> \o StampText(entry)

\* "".join(texts)
RECURSIVE Join(_)
Join(texts) == IF texts = <<>> THEN <<>> ELSE Head(texts) \o Join(Tail(texts))

\* f.readlines(): the lines of the text, each with its newline
RECURSIVE readlines(_)
readlines(text) ==
    LET f == Find(text, <<NL>>)
    IN  IF text = <<>> THEN <<>>
        ELSE IF f = 0 THEN <<text>>
        ELSE <<SubSeq(text, 1, f)>> \o readlines(SubSeq(text, f + 1, Len(text)))

\* the lines in which the address does not occur
RECURSIVE LinesWithout(_, _)
LinesWithout(lines, sender_email) ==
    IF lines = <<>> THEN <<>>
    ELSE IF ~IsSubstr(sender_email, Head(lines))
         THEN <<Head(lines)>> \o LinesWithout(Tail(lines), sender_email)
         ELSE LinesWithout(Tail(lines), sender_email)

\* the loop of the load over the lines of the text
RECURSIVE LoadLines(_, _)
LoadLines(lines, acc) ==
    IF lines = <<>> THEN acc
    ELSE LET p == ParseLine(Head(lines))
         IN  CASE p.kind = "entry" ->
                    LoadLines(Tail(lines),
                        [acc EXCEPT !.entries =
                            Append(@, Entry(p.row.addr, p.row.ts, TRUE))])
               [] p.kind \in {"blank", "invalid"} -> LoadLines(Tail(lines), acc)
               [] OTHER -> [ok |-> FALSE, entries |-> acc.entries]

\* the file before the first operation: no file, an empty file, a file
\* with one line and its end of line
InitialTexts ==
    {[exists |-> FALSE, text |-> <<>>],
     [exists |-> TRUE, text |-> <<>>],
     [exists |-> TRUE, text |-> <<" ", " ">> \o addrBA \o <<":", " ", "1", NL>>]}

\* datetime.now()
FlNow == MaxTime + Len(fl_log)

InitFile ==
    /\ RunIdle
    /\ RAIdle
    /\ LgIdle
    /\ RtIdle
    /\ ClIdle
    /\ DtIdle
    /\ MbIdle
    /\ RnIdle
    /\ fl_pc = "ready"
    /\ \E init \in InitialTexts :
        /\ fl_exists = init.exists
        /\ fl_text = init.text
    /\ fl_mem = <<>>
    /\ fl_log = <<>>

\* update_sent_mails_waiting_for_answer_from_file, while the in-memory list
\* is empty
FlLoad ==
    /\ fl_pc = "ready"
    /\ Len(fl_log) < MaxOps
    /\ fl_mem = <<>>
    /\ LET loaded == IF fl_exists
                     THEN LoadLines(readlines(fl_text),
                                    [ok |-> TRUE, entries |-> fl_mem])
                     ELSE [ok |-> TRUE, entries |-> fl_mem]
       IN  /\ fl_mem' = loaded.entries
           /\ fl_pc' = IF loaded.ok THEN "ready" ELSE "aborted"
    /\ fl_log' = Append(fl_log, "load")
    /\ UNCHANGED <<fl_exists, fl_text, offFile>>

\* answering_to_first_mails appends an entry after an offer was sent
FlAppend ==
    /\ fl_pc = "ready"
    /\ Len(fl_log) < MaxOps
    /\ \E a \in Addrs : fl_mem' = Append(fl_mem, Entry(a, FlNow, FALSE))
    /\ fl_log' = Append(fl_log, "append")
    /\ UNCHANGED <<fl_pc, fl_exists, fl_text, offFile>>

\* add_to_waiting_list: the file is opened for appending and every
\* in-memory entry is written
FlFlush ==
    /\ fl_pc = "ready"
    /\ Len(fl_log) < MaxOps
    /\ fl_exists' = TRUE
    /\ fl_text' = fl_text \o Join([i \in DOMAIN fl_mem |-> EntryText(fl_mem[i])])
    /\ fl_log' = Append(fl_log, "flush")
    /\ UNCHANGED <<fl_pc, fl_mem, offFile>>

\* remove_from_waiting_list: the lines are read and the lines in which the
\* address does not occur are written back
FlRemove ==
    /\ fl_pc = "ready"
    /\ Len(fl_log) < MaxOps
    /\ \E a \in Addrs :
        fl_text' = IF fl_exists
                   THEN Join(LinesWithout(readlines(fl_text), a))
                   ELSE fl_text
    /\ fl_log' = Append(fl_log, "remove")
    /\ UNCHANGED <<fl_pc, fl_exists, fl_mem, offFile>>

\* the process ends and the next one starts with an empty in-memory list
FlFresh ==
    /\ fl_pc \in {"ready", "aborted"}
    /\ Len(fl_log) < MaxOps
    /\ fl_log # <<>>
    /\ fl_log[Len(fl_log)] # "fresh"
    /\ fl_pc' = "ready"
    /\ fl_mem' = <<>>
    /\ fl_log' = Append(fl_log, "fresh")
    /\ UNCHANGED <<fl_exists, fl_text, offFile>>

NextFile == FlLoad \/ FlAppend \/ FlFlush \/ FlRemove \/ FlFresh

SpecFile == InitFile /\ [][NextFile]_vars

----------------------------------------------------------------------------
(* Several runs of Maileg.main over one mailbox.  The transport calls
   succeed; a run ends when main returns or calendar_stuff stops it. *)

\* the messages of the mailbox: a reply that names the slot of evG, and a
\* text that names no slot, each with a Subject header
RunMessages ==
    {[from |-> a, date |-> t, hasBody |-> TRUE, body |-> b,
      hasSubject |-> TRUE, subject |-> s] :
        a \in Addrs, t \in Times,
        b \in {formatted_string(slotG) \o GT, <<"x", ">">>},
        s \in {<<"x">>}}

\* the ledger file before the first run
RunFiles ==
    {File(<<Row(addrA, 1)>>), File(<<Row(addrA, 1), Row(addrBA, 1)>>)}

\* the calendar before the first run
RunCalendars == {<<evGA, evG>>, <<evG>>}

\* datetime.now() in a run: later than the dates of the messages
RnNow == MaxTime + rn_run

\* the summary schedule_workout gives a booked event
BookedSummary == <<"T", "r">>

InitRuns ==
    /\ RunIdle
    /\ RAIdle
    /\ LgIdle
    /\ RtIdle
    /\ ClIdle
    /\ DtIdle
    /\ MbIdle
    /\ FlIdle
    /\ rn_pc = "search"
    /\ rn_inbox \in UNION {[1..k -> RunMessages] : k \in 1..MaxMsgs}
    /\ rn_unread = DOMAIN rn_inbox
    /\ rn_batch = <<>>
    /\ rn_run = 1
    /\ rn_file \in RunFiles
    /\ rn_mem = <<>>
    /\ rn_queue = <<>>
    /\ rn_blocker = FALSE
    /\ rn_events \in RunCalendars
    /\ rn_fetched = <<>>
    /\ rn_hours = <<>>
    /\ rn_actions = <<>>

\* the positions of a set, in increasing order
RECURSIVE InOrder(_)
InOrder(S) ==
    IF S = {} THEN <<>>
    ELSE LET least == CHOOSE i \in S : \A j \in S : i <= j
         IN  <<least>> \o InOrder(S \ {least})

\* process_emails: the search returns the unread messages
RnSearch ==
    /\ rn_pc = "search"
    /\ rn_batch' = InOrder(rn_unread)
    /\ rn_pc' = "process"
    /\ UNCHANGED <<rn_inbox, rn_unread, rn_run, rn_file, rn_mem, rn_queue,
                   rn_blocker, rn_events, rn_fetched, rn_hours, rn_actions,
                   offRuns>>

\* the ledger the classification reads: loaded while it is empty
RnEntries ==
    IF rn_mem = <<>>
    THEN update_sent_mails_waiting_for_answer_from_file(rn_mem, rn_file)
    ELSE rn_mem

RnStatus(m) == check_email_response_status(m.from, m.date, RnEntries)

\* the calendar with the summary of one event replaced
Booked(evs, id) ==
    [i \in DOMAIN evs |->
        IF evs[i].id = id THEN [evs[i] EXCEPT !.summary = BookedSummary]
        ELSE evs[i]]

\* process_individual_email for a message classified RESPONSE:
\* calendar_stuff while no hour is known (it may stop the run), then
\* reading_answers; a chosen slot is booked, confirmed and the rows of the
\* sender removed; without a chosen slot the blocker is set
RnResponse ==
    /\ rn_pc = "process"
    /\ rn_batch # <<>>
    /\ LET i == Head(rn_batch)
           m == rn_inbox[i]
           fetched == IF rn_hours = <<>> THEN rn_events ELSE rn_fetched
           hours == IF rn_hours = <<>> THEN OptionalHours(rn_events)
                    ELSE rn_hours
           choice == reading_answers(BodyOf(m), hours)
       IN  /\ RnStatus(m) = "RESPONSE"
           /\ rn_mem' = RnEntries
           /\ IF rn_hours = <<>> /\ CalendarStops(rn_events)
              THEN /\ rn_pc' = "stopped"
                   /\ UNCHANGED <<rn_batch, rn_file, rn_blocker, rn_events,
                                  rn_fetched, rn_hours, rn_actions>>
              ELSE /\ rn_pc' = "process"
                   /\ rn_batch' = Tail(rn_batch)
                   /\ rn_fetched' = fetched
                   /\ rn_hours' = hours
                   /\ IF choice # <<>>
                      THEN /\ rn_events' =
                                Booked(rn_events,
                                       fetched[EventOf(fetched, choice)].id)
                           /\ rn_actions' = Append(rn_actions, <<i, "booking">>)
                           /\ rn_file' = remove_from_waiting_list(rn_file, m.from)
                           /\ UNCHANGED rn_blocker
                      ELSE /\ rn_blocker' = TRUE
                           /\ UNCHANGED <<rn_events, rn_actions, rn_file>>
    /\ UNCHANGED <<rn_inbox, rn_unread, rn_run, rn_queue, offRuns>>

\* process_individual_email for a message classified QUESTION: enqueued
\* when the keyword filter finds a keyword
RnQuestion ==
    /\ rn_pc = "process"
    /\ rn_batch # <<>>
    /\ LET i == Head(rn_batch)
           m == rn_inbox[i]
       IN  /\ RnStatus(m) = "QUESTION"
           /\ rn_mem' = RnEntries
           /\ rn_queue' = IF received_message_filer_first_mail(m)
                          THEN Append(rn_queue, i) ELSE rn_queue
    /\ rn_batch' = Tail(rn_batch)
    /\ UNCHANGED <<rn_pc, rn_inbox, rn_unread, rn_run, rn_file, rn_blocker,
                   rn_events, rn_fetched, rn_hours, rn_actions, offRuns>>

\* process_individual_email for a message that is neither
RnNeither ==
    /\ rn_pc = "process"
    /\ rn_batch # <<>>
    /\ RnStatus(rn_inbox[Head(rn_batch)]) = ""
    /\ rn_mem' = RnEntries
    /\ rn_batch' = Tail(rn_batch)
    /\ UNCHANGED <<rn_pc, rn_inbox, rn_unread, rn_run, rn_file, rn_queue,
                   rn_blocker, rn_events, rn_fetched, rn_hours, rn_actions,
                   offRuns>>

\* answering_to_mails: calendar_stuff while no hour is known (it may stop
\* the run), an offer to every enqueued inquiry, an entry for each, and the
\* flush of the in-memory list
RnAnswer ==
    /\ rn_pc = "process"
    /\ rn_batch = <<>>
    /\ IF rn_queue = <<>>
       THEN /\ rn_pc' = "mark"
            /\ UNCHANGED <<rn_file, rn_mem, rn_fetched, rn_hours, rn_actions>>
       ELSE IF rn_hours = <<>> /\ CalendarStops(rn_events)
       THEN /\ rn_pc' = "stopped"
            /\ UNCHANGED <<rn_file, rn_mem, rn_fetched, rn_hours, rn_actions>>
       ELSE /\ rn_pc' = "mark"
            /\ rn_fetched' = IF rn_hours = <<>> THEN rn_events ELSE rn_fetched
            /\ rn_hours' = IF rn_hours = <<>> THEN OptionalHours(rn_events)
                           ELSE rn_hours
            /\ rn_actions' = rn_actions \o
                  [k \in DOMAIN rn_queue |-> <<rn_queue[k], "offer">>]
            /\ rn_mem' = rn_mem \o
                  [k \in DOMAIN rn_queue |->
                      Row(rn_inbox[rn_queue[k]].from, RnNow)]
            /\ rn_file' = add_to_waiting_list(rn_file, rn_mem')
    /\ UNCHANGED <<rn_inbox, rn_unread, rn_batch, rn_run, rn_queue,
                   rn_blocker, rn_events, offRuns>>

\* removing_unread_label: unless the blocker is set, mark_as_read takes the
\* UNREAD label from the messages the query finds
RnMark ==
    /\ rn_pc = "mark"
    /\ rn_unread' = IF rn_blocker THEN rn_unread ELSE {}
    /\ rn_pc' = "done"
    /\ UNCHANGED <<rn_inbox, rn_batch, rn_run, rn_file, rn_mem, rn_queue,
                   rn_blocker, rn_events, rn_fetched, rn_hours, rn_actions,
                   offRuns>>

\* the next run: a new process with new objects; the mailbox, the file and
\* the calendar are what the run before left
RnNextRun ==
    /\ rn_pc \in {"done", "stopped"}
    /\ rn_run < MaxRuns
    /\ rn_run' = rn_run + 1
    /\ rn_pc' = "search"
    /\ rn_batch' = <<>>
    /\ rn_mem' = <<>>
    /\ rn_queue' = <<>>
    /\ rn_blocker' = FALSE
    /\ rn_fetched' = <<>>
    /\ rn_hours' = <<>>
    /\ UNCHANGED <<rn_inbox, rn_unread, rn_file, rn_events, rn_actions,
                   offRuns>>

NextRuns ==
    \/ RnSearch
    \/ RnResponse
    \/ RnQuestion
    \/ RnNeither
    \/ RnAnswer
    \/ RnMark
    \/ RnNextRun

SpecRuns == InitRuns /\ [][NextRuns]_vars

----------------------------------------------------------------------------
(* Claims about the normalizer and the matcher (SpecRA) *)

\* position of the marker that appears earliest in raw (0: no marker)
EarliestMarker(raw) ==
    IF Find(raw, GT) = 0 THEN Find(raw, STARS)
    ELSE IF Find(raw, STARS) = 0 THEN Find(raw, GT)
    ELSE IF Find(raw, GT) < Find(raw, STARS) THEN Find(raw, GT)
    ELSE Find(raw, STARS)

\* C3: normalize keeps the text before the earliest '>' or '**' marker, or
\* the full body when there is no marker, then collapses double spaces and
\* removes newlines.
C3_NormalizeAsClaimed ==
    ra_pc = "done" =>
        filtered_body =
            [ok |-> TRUE,
             text |-> Clean(IF EarliestMarker(raw_body) = 0 THEN raw_body
                            ELSE SubSeq(raw_body, 1, EarliestMarker(raw_body) - 1))]

\* the offered slot at position i satisfies one of the two containments
Satisfies(i) ==
    /\ Renderable(offered[i])
    /\ \/ IsSubstr(formatted_string(offered[i]), filtered_body.text)
       \/ IsSubstr(Replace(Lower(formatted_string(offered[i])), <<" ">>, <<>>),
                   Replace(Lower(filtered_body.text), <<" ">>, <<>>))

\* C4: on a normalized reply the slot loop returns the first offered slot, in
\* retrieval order, one of whose rendered forms is contained in the matching
\* form of the reply, and returns no match exactly when no slot is.
C4_FirstMatchWins ==
    (ra_pc = "done" /\ filtered_body.ok) =>
        IF \E i \in DOMAIN offered : Satisfies(i)
        THEN \E i \in DOMAIN offered :
                /\ Satisfies(i)
                /\ \A j \in 1..(i - 1) : ~Satisfies(j)
                /\ sender_choice = offered[i]
        ELSE sender_choice = <<>>

\* a later slot is returned because the earlier one matches neither way, and
\* it is found through the collapsed form only
C4_Witness ==
    /\ ra_pc = "done"
    /\ filtered_body.ok
    /\ Len(offered) = 2
    /\ ~Satisfies(1)
    /\ sender_choice = offered[2]
    /\ ~IsSubstr(formatted_string(offered[2]), filtered_body.text)

\* the body is format(first offered slot), a '>' marker, then quoted text
QuotedReplyToFirst ==
    /\ offered # <<>>
    /\ Renderable(offered[1])
    /\ Len(raw_body) > Len(formatted_string(offered[1]))
    /\ SubSeq(raw_body, 1, Len(formatted_string(offered[1])) + 1)
          = formatted_string(offered[1]) \o GT

\* C5 as stated: for every offered slot s placed first, the body format(s)
\* followed by a '>' marker and any quoted text is matched to s.
C5_QuotedTextNeverDefeats ==
    (ra_pc = "done" /\ QuotedReplyToFirst) => sender_choice = offered[1]

MarkerFree(text) ==
    /\ ~IsSubstr(GT, text)
    /\ ~IsSubstr(STARS, text)
    /\ ~IsSubstr(<<NL>>, text)

\* C5 amended: for every offered slot s placed first whose rendered form
\* holds no '>', no '**' and no newline, the body format(s) followed by a
\* '>' marker and any quoted text is matched to s.
C5_QuotedTextAfterMarkerFreeSlot ==
    (ra_pc = "done" /\ QuotedReplyToFirst
        /\ MarkerFree(formatted_string(offered[1])))
    => sender_choice = offered[1]

\* quoted text follows the '>' marker, and the slot is still matched
C5_Witness ==
    /\ ra_pc = "done"
    /\ QuotedReplyToFirst
    /\ MarkerFree(formatted_string(offered[1]))
    /\ Len(offered) = 2
    /\ Len(raw_body) > Len(formatted_string(offered[1])) + 1
    /\ raw_body[Len(raw_body)] = "x"
    /\ sender_choice = offered[1]

----------------------------------------------------------------------------
(* Claims about one run (Spec) *)

Ledger == sent_mails_waiting_for_answer_or_confirmation

EntriesOf(sender) == {i \in DOMAIN Ledger : Ledger[i].addr = sender}

FirstEntryOf(sender) ==
    CHOOSE i \in EntriesOf(sender) : \A j \in EntriesOf(sender) : i <= j

Classified == pc \in {"response", "question", "neither"}

\* C1: the classification is QUESTION when the ledger has no entry for the
\* sender, RESPONSE when the receipt time is later than the timestamp of the
\* first entry of the sender, and empty (INDETERMINATE) when it is equal to
\* or earlier than that timestamp.
C1_ThreeWayRule ==
    Classified =>
        LET m == one_message_keyword_filter
        IN  /\ EntriesOf(m.from) = {} => response_status = "QUESTION"
            /\ EntriesOf(m.from) # {} =>
                 /\ m.date > Ledger[FirstEntryOf(m.from)].ts
                        => response_status = "RESPONSE"
                 /\ m.date <= Ledger[FirstEntryOf(m.from)].ts
                        => response_status = ""

\* the first entry of the sender is not earlier than the message although a
\* later entry of the same sender is
C1_Witness ==
    /\ Classified
    /\ response_status = ""
    /\ \E i \in EntriesOf(one_message_keyword_filter.from) :
          Ledger[i].ts < one_message_keyword_filter.date

RowsOf(file, a) == {i \in DOMAIN file.rows : file.rows[i].addr = a}

\* the body of the current message is exactly the rendered form of an
\* offered slot and holds no marker
ExactSlotBody(hours) ==
    /\ one_message_keyword_filter.hasBody
    /\ ~IsSubstr(GT, one_message_keyword_filter.body)
    /\ ~IsSubstr(STARS, one_message_keyword_filter.body)
    /\ \E i \in DOMAIN hours :
          /\ Renderable(hours[i])
          /\ one_message_keyword_filter.body = formatted_string(hours[i])

\* C2 (scenario B): a RESPONSE whose body is exactly the rendered form of an
\* offered slot, without any marker, is matched and booked when the handler
\* completes, and the rows of the sender are removed.
C2_ScenarioB ==
    [][(pc = "response" /\ pc' = "process"
            /\ ExactSlotBody(list_of_optional_hours'))
        => /\ last'.op = "booked"
           /\ Len(calendar_updates') = Len(calendar_updates) + 1
           /\ RowsOf(waiting_file', one_message_keyword_filter.from) = {}]_vars

C9_UnmatchedLeavesLedger ==
    [][(pc = "response" /\ last'.op = "unmatched")
        => /\ waiting_file' = waiting_file
           /\ sent_mails_waiting_for_answer_or_confirmation'
                 = sent_mails_waiting_for_answer_or_confirmation
           /\ one_message_keyword_filter.from
                 \in Keys(sent_mails_waiting_for_answer_or_confirmation')]_vars

\* an unmatched response was handled while the file held a row of the sender
C9_Witness ==
    /\ last.op = "unmatched"
    /\ pc = "process"
    /\ RowsOf(waiting_file, last.who) # {}
    /\ last.who \in Keys(Ledger)

\* C10: once a message of the run ended UNMATCHED the blocker is set, and
\* mark_as_read has not been invoked, in every later state of the run.
C10_UnmatchedBlocksMarking ==
    "UNMATCHED" \in outcomes => (removing_unread_label_blocker /\ ~marked)

\* the run ended after a matched and an unmatched message
C10_Witness ==
    /\ pc = "done"
    /\ {"UNMATCHED", "MATCHED"} \subseteq outcomes
    /\ ~marked

\* C11: a message classified INDETERMINATE is dropped with no side effect.
\* From its classification to the end of its handling no mail is sent, no
\* calendar call is made, the file is not written, nothing is enqueued or
\* archived and no flag changes; the in-memory list is only filled from the
\* file when it was empty.
C11_IndeterminateNoSideEffects ==
    [][(pc' = "neither" \/ pc = "neither")
        => /\ UNCHANGED <<offers, confirmations, calendar_updates,
                          calendar_fetches, events, list_of_optional_hours,
                          waiting_file, mails_to_answer, archive,
                          something_happened, removing_unread_label_blocker,
                          marked>>
           /\ \/ UNCHANGED sent_mails_waiting_for_answer_or_confirmation
              \/ /\ sent_mails_waiting_for_answer_or_confirmation = <<>>
                 /\ sent_mails_waiting_for_answer_or_confirmation'
                       = waiting_file.rows]_vars

\* an INDETERMINATE message was dropped in a run that did nothing else
C11_Witness ==
    /\ last.op = "dropped"
    /\ outcomes = {"INDETERMINATE"}
    /\ ~something_happened

\* C12: every message classified INDETERMINATE is logged as an anomaly.
C12_IndeterminateLogged ==
    [][pc = "neither" => logged' # logged]_vars

\* C13, for the messages the keyword filter selects: every message
\* classified QUESTION in which a configured
\* keyword occurs is enqueued in mails_to_answer and its content is written
\* to the daily archive.
C13_KeywordQuestionEnqueued ==
    [][(pc = "question"
          /\ received_message_filer_first_mail(one_message_keyword_filter))
        => /\ mails_to_answer'
                = Append(mails_to_answer, one_message_keyword_filter.from)
           /\ archive' = Append(archive, n)]_vars

AddrsOf(entries) == [i \in DOMAIN entries |-> entries[i].addr]

\* C14: handling a QUESTION leaves the file and the in-memory list alone; the
\* in-memory list gains entries only by the load from the file or, in the
\* batch at the end of the run, one entry for each address an offer was just
\* sent to; the file gains rows only in that batch, after every offer of the
\* batch was sent, and the rows are the in-memory entries.
C14_EntryOnlyAfterOfferSent ==
    [][/\ pc = "question"
          => UNCHANGED <<sent_mails_waiting_for_answer_or_confirmation,
                         waiting_file>>
       /\ sent_mails_waiting_for_answer_or_confirmation'
             # sent_mails_waiting_for_answer_or_confirmation
          => \/ /\ sent_mails_waiting_for_answer_or_confirmation = <<>>
                /\ last'.op = "classify"
                /\ sent_mails_waiting_for_answer_or_confirmation'
                      = waiting_file.rows
             \/ /\ pc = "process" /\ n = total
                /\ Len(Ledger') > Len(Ledger)
                /\ SubSeq(Ledger', 1, Len(Ledger)) = Ledger
                /\ offers' = offers \o AddrsOf(SubSeq(Ledger', Len(Ledger) + 1,
                                                      Len(Ledger')))
       /\ Len(waiting_file'.rows) > Len(waiting_file.rows)
          => /\ pc = "process" /\ n = total
             /\ offers' = offers \o mails_to_answer
             /\ waiting_file'.rows = waiting_file.rows
                   \o sent_mails_waiting_for_answer_or_confirmation']_vars

\* an offer was sent to an inquiry of this run, and its entry was written
C14_Witness ==
    /\ last.op = "offers_sent"
    /\ "QUESTION" \in outcomes
    /\ offers # <<>>
    /\ \E i \in DOMAIN waiting_file.rows : waiting_file.rows[i].addr = offers[1]

----------------------------------------------------------------------------
(* Claims about the ledger (SpecLedger) *)

LinesOf(file) == [i \in DOMAIN file.rows |-> LineOf(file.rows[i])]

\* a line has the shape "address: timestamp" when it holds a colon
HasShape(line) == IsSubstr(<<":">>, line)

\* the address a line of that shape is about
AddressOf(line) == Strip(SplitHead(Strip(line), <<":">>))

IsAbout(line, a) == HasShape(line) /\ AddressOf(line) = a

RECURSIVE RowsNotAbout(_, _)
RowsNotAbout(rows, a) ==
    IF rows = <<>> THEN <<>>
    ELSE (IF IsAbout(LineOf(Head(rows)), a) THEN <<>> ELSE <<Head(rows)>>)
         \o RowsNotAbout(Tail(rows), a)

Removed(a) == lg_ops' # lg_ops /\ lg_last' = LgDone("remove", a)

Flushed == lg_ops' # lg_ops /\ lg_last'.op = "flush"

Loaded == lg_ops' # lg_ops /\ lg_last'.op = "load"

\* C15: remove(address) leaves in the file exactly the previous rows whose
\* address differs from the given one, in their previous order.
C15_RemoveDropsExactlyTheAddress ==
    [][\A a \in Addrs :
          Removed(a) => lg_file'.rows = RowsNotAbout(lg_file.rows, a)]_vars

\* C16: removing an address that has no row, or removing when there is no
\* file, leaves the file as it is; a second remove of the same address
\* changes nothing.
C16_RemoveIdempotent ==
    [][\A a \in Addrs :
          Removed(a)
          => /\ (\A i \in DOMAIN lg_file.rows :
                    ~IsAbout(LineOf(lg_file.rows[i]), a))
                => lg_file' = lg_file
             /\ ~lg_file.exists => lg_file' = lg_file
             /\ remove_from_waiting_list(lg_file', a) = lg_file']_vars

\* C17: when the entries in memory are flushed, a load of the file into a
\* fresh ledger yields what that load yielded before the flush, followed by
\* the flushed entries, with their addresses and timestamps.
C17_RoundTrip ==
    [][Flushed
        => LET before == LoadFile(<<>>, lg_file)
               after == LoadFile(<<>>, lg_file')
           IN  before.ok
               => /\ after.ok
                  /\ after.entries = before.entries \o lg_mem]_vars

\* entries were appended and flushed, and a fresh ledger loaded them
C17_Witness ==
    /\ lg_last.op = "load"
    /\ lg_pc = "ready"
    /\ \E i \in DOMAIN lg_mem : lg_mem[i].ts >= MaxTime

\* C18: a flush appends to the file exactly the in-memory entries that were
\* never written: one row for each entry appended since the load or the last
\* flush, and no row for a loaded or already flushed entry.
C18_FlushWritesOnlyNewEntries ==
    [][Flushed
        => lg_file'.rows
             = lg_file.rows
               \o SubSeq(lg_mem, Len(lg_mem) - lg_new + 1, Len(lg_mem))]_vars

IsBlank(line) == \A i \in DOMAIN line : line[i] \in Whitespace

\* the timestamp of a line of the shape "address: timestamp" is accepted
TimeParses(line) ==
    string_to_datetime(Strip(Split1(Strip(line), <<":">>)[2])).ok

Count(list, tag) == Cardinality({i \in DOMAIN list : list[i] = tag})

\* C19: a load reads the lines in order. It ends with an error at the first
\* line of the shape 'address: timestamp' whose timestamp no format accepts;
\* of the lines before that one (all lines if there is none) every line of
\* that shape gives an entry, every blank line is ignored, and every other
\* line is logged and skipped.
C19_LoadSkipsOrAborts ==
    [][Loaded
        => LET lines == LinesOf(lg_file)
               bad == {i \in DOMAIN lines :
                          HasShape(lines[i]) /\ ~TimeParses(lines[i])}
               read == IF bad = {} THEN DOMAIN lines
                       ELSE {i \in DOMAIN lines : \A j \in bad : i < j}
           IN  /\ lg_pc' = IF bad = {} THEN "ready" ELSE "aborted"
               /\ Len(lg_mem')
                     = Cardinality({i \in read : HasShape(lines[i])})
               /\ \A i \in read :
                     HasShape(lines[i])
                     => \E k \in DOMAIN lg_mem' :
                           lg_mem'[k].addr = AddressOf(lines[i])
               /\ Count(lg_log', "INVALID_LINE")
                     = Cardinality({i \in read : /\ ~HasShape(lines[i])
                                                 /\ ~IsBlank(lines[i])})
               /\ Count(lg_log', "READ_ERROR") = IF bad = {} THEN 0 ELSE 1]_vars

\* a load skipped a line without the shape, ignored a blank line and read
\* the two entries around them
C19_Witness ==
    /\ lg_last.op = "load"
    /\ lg_pc = "ready"
    /\ Count(lg_log, "INVALID_LINE") = 1
    /\ Len(lg_mem) = 2
    /\ \E i \in DOMAIN lg_file.rows : IsBlank(LineOf(lg_file.rows[i]))

----------------------------------------------------------------------------
(* Claims about the retry wrapper (SpecRetry) *)

RetryableFailures ==
    Cardinality({i \in 1..rt_calls : Retryable(rt_script[i])})

C21_Status403Retried ==
    rt_pc \in {"returned", "raised"}
    => \A i \in 1..rt_calls :
          rt_script[i] = "http403"
          => /\ Len(rt_delays) >= i
             /\ i < 3 => rt_calls > i

----------------------------------------------------------------------------
(* Claims about the calendar in a run (Spec) *)

IsMarkerNamed(ev) == Lower(ev.summary) = Lower(CALENDAR_OPTIONAL_HOUR_NAME)

CanBeOffered(ev) == IsMarkerNamed(ev) /\ ev.location # NoLocation

\* C22: when the calendar that was fetched holds no marker-named event with
\* a location (no events, other summaries only, or marker events without a
\* location), the run has stopped and no offer was sent.
C22_ScenarioD ==
    (/\ calendar_fetches > 0
     /\ \A i \in DOMAIN events : ~CanBeOffered(events[i]))
    => pc = "stopped" /\ offers = <<>>

\* the only marker event has no location: the run stopped with an inquiry
\* waiting for its offer
C22_Witness ==
    /\ pc = "stopped"
    /\ events = <<evNoLoc>>
    /\ mails_to_answer # <<>>
    /\ offers = <<>>

C27_AbsentBodyNeverCrashes ==
    [][(/\ pc = "response"
        /\ ~one_message_keyword_filter.hasBody
        /\ last'.op = "unmatched")
       => pc' = "process"]_vars

\* the items are events of the list, in the order of the list
RECURSIVE InRetrievalOrder(_, _)
InRetrievalOrder(items, evs) ==
    IF items = <<>> THEN TRUE
    ELSE IF evs = <<>> THEN FALSE
    ELSE IF Head(items)
              = <<Head(evs).start, Head(evs).summary, Head(evs).location>>
         THEN InRetrievalOrder(Tail(items), Tail(evs))
         ELSE InRetrievalOrder(items, Tail(evs))

\* C28: the calendar is read at most once in a run; once the offered list
\* is set it does not change; its items are in the order in which the
\* calendar returned them, and the lines of the offer text are the items in
\* that same order.
C28_OfferedSetReadOnce ==
    [][/\ calendar_fetches' <= 1
       /\ list_of_optional_hours # <<>>
          => UNCHANGED <<list_of_optional_hours, events, calendar_fetches>>
       /\ InRetrievalOrder(list_of_optional_hours', events')
       /\ formatted_workout_strings' # <<>>
          => formatted_workout_strings'
               = [i \in DOMAIN list_of_optional_hours' |->
                     formatted_string(list_of_optional_hours'[i])]]_vars

\* the calendar was read for a reply, and the offers sent later in the run
\* list the same two slots
C28_Witness ==
    /\ "MATCHED" \in outcomes
    /\ offers # <<>>
    /\ calendar_fetches = 1
    /\ Len(formatted_workout_strings) = 2
    /\ formatted_workout_strings[1] # formatted_workout_strings[2]

\* C29: when the run has ended, normally or by an error, every address an
\* offer was sent to has a row in the file.
C29_OfferedAddressesHaveRows ==
    pc \in {"done", "crashed", "stopped"}
    => \A i \in DOMAIN offers :
          \E j \in DOMAIN waiting_file.rows :
             waiting_file.rows[j].addr = offers[i]

----------------------------------------------------------------------------
(* Claims about calendar_stuff on its own (SpecCalendar) *)

\* C24: an event with a location is an offered slot exactly when its
\* summary equals the configured name ignoring case, however the summary
\* and the configured name are cased.
C24_MarkerIgnoresCase ==
    cl_pc # "start"
    => \A i \in DOMAIN cl_events :
          cl_events[i].location # NoLocation
          => ((\E k \in DOMAIN cl_hours :
                  cl_hours[k] = <<cl_events[i].start, cl_events[i].summary,
                                  cl_events[i].location>>)
              <=> Lower(cl_events[i].summary) = Lower(cl_name))

----------------------------------------------------------------------------
(* Claims about the receipt time (SpecDate) *)

\* the instant a Date header denotes
Instant(header) == header.wall - header.zone

\* C26: two Date headers that denote the same instant give the same receipt
\* time and the same classification.
C26_SameInstantSameReceipt ==
    (dt_pc = "done" /\ Instant(dt_headers[1]) = Instant(dt_headers[2]))
    => /\ dt_receipts[1] = dt_receipts[2]
       /\ dt_statuses[1] = dt_statuses[2]

----------------------------------------------------------------------------
(* Claims about the mailbox steps (SpecMail) *)

\* the message ids of the mailbox
IdsOf(pages) == UNION {{pages[i][j] : j \in DOMAIN pages[i]} : i \in DOMAIN pages}

\* how many times an id was read and classified
TimesClassified(id) ==
    Cardinality({i \in DOMAIN mb_classified : mb_classified[i] = id})

\* C25: each message of the mailbox is read and classified once and only
\* once: never twice, and once when the reading is over.
C25_ClassifiedExactlyOnce ==
    /\ \A id \in IdsOf(mb_pages) : TimesClassified(id) <= 1
    /\ (mb_pc = "read" /\ Len(mb_classified) = Len(messages))
          => \A id \in IdsOf(<<messages>>) : TimesClassified(id) = 1

\* C30: one top-level operation never sees more than MAX_RETRIES failed
\* transport calls, that is, a failing call is attempted at most
\* MAX_RETRIES times.
C30_AtMostThreeAttempts == mb_failed <= MAX_RETRIES

\* C34: mark_as_read removes the UNREAD label only from messages that were
\* read and classified in the run.
C34_MarksOnlyProcessed ==
    \A i \in DOMAIN mb_marked : TimesClassified(mb_marked[i]) >= 1

----------------------------------------------------------------------------
(* Claims about the ledger during a run (Spec) *)

----------------------------------------------------------------------------
(* Claims about the inquiries of a run (Spec) *)

\* the addresses the responses were prepared for, in the order of writing
PreparedFor == [i \in DOMAIN prepared |-> prepared[i].to]

\* C32: in without-answering mode no offer is ever sent, and the answering
\* batch leaves the in-memory ledger and the file as they were; when it
\* completes it has written one prepared response for each enqueued inquiry.
C32_WithoutAnsweringFrame ==
    [][without_answering_mode
        => /\ offers' = <<>>
           /\ (pc = "process" /\ n = total /\ mails_to_answer # <<>>)
                => /\ UNCHANGED <<sent_mails_waiting_for_answer_or_confirmation,
                                 waiting_file>>
                   /\ pc' = "mark" => PreparedFor' = PreparedFor \o mails_to_answer]_vars

\* in without-answering mode a batch of inquiries was prepared
C32_Witness ==
    /\ without_answering_mode
    /\ last.op = "offers_prepared"
    /\ mails_to_answer # <<>>
    /\ PreparedFor = mails_to_answer
    /\ offers = <<>>

\* a configured keyword occurs, ignoring case, in a field of the message
KeywordOccurs(m) ==
    \E keyword \in KEYWORDS : \E value \in Values(m) :
        \E i \in 1..Len(value) :
            /\ i + Len(keyword) - 1 <= Len(value)
            /\ \A j \in 1..Len(keyword) :
                  LowerChar(value[i + j - 1]) = LowerChar(keyword[j])

\* C33: a message classified QUESTION is enqueued if and only if a
\* configured keyword occurs in one of its fields, and without a keyword
\* nothing is enqueued or archived and no flag changes.
C33_EnqueuedIffKeyword ==
    [][pc = "question"
        => /\ (mails_to_answer'
                  = Append(mails_to_answer, one_message_keyword_filter.from))
              <=> KeywordOccurs(one_message_keyword_filter)
           /\ ~KeywordOccurs(one_message_keyword_filter)
              => UNCHANGED <<mails_to_answer, archive, something_happened,
                             removing_unread_label_blocker>>]_vars

\* C38: a message whose sender cannot be determined is logged and skipped:
\* the run goes on with the next message, and the ledger, the queue and the
\* flags are as they were.
C38_NoSenderSkipped ==
    [][last'.op \in {"no_sender", "sender_unbound"}
        => /\ pc' = "process"
           /\ "NO_SENDER" \in logged'
           /\ UNCHANGED <<sent_mails_waiting_for_answer_or_confirmation,
                          waiting_file, mails_to_answer, something_happened,
                          removing_unread_label_blocker, outcomes>>]_vars

----------------------------------------------------------------------------
(* Claims about the order of the ledger (SpecLedger) *)

\* the timestamps of the entries of an address
StampsOf(entries, a) == {entries[i].ts : i \in {j \in DOMAIN entries : entries[j].addr = a}}

\* the first entry of every address carries the smallest timestamp of the
\* address, and so the classification of any receipt time against the list
\* is the classification against the earliest entry alone
FirstIsEarliest(entries) ==
    \A a \in Keys(entries) :
        /\ \A t \in StampsOf(entries, a) : sent_time(entries, a) <= t
        /\ \A t \in 0..(MaxTime + MaxOps + 1) :
              check_email_response_status(a, t, entries)
                = check_email_response_status(a, t,
                      <<Row(a, CHOOSE e \in StampsOf(entries, a) :
                                  \A o \in StampsOf(entries, a) : e <= o)>>)

\* the entries a load of the file yields
EntriesOfFile == LoadFile(<<>>, lg_file).entries

\* C36: in the in-memory ledger and in the file, the first entry of every
\* address carries the smallest timestamp of that address.
C36_FirstEntryIsEarliest ==
    /\ FirstIsEarliest(lg_mem)
    /\ FirstIsEarliest(EntriesOfFile)

\* an address has entries with different timestamps, in memory and in the
\* file, after a load, an append and a flush
C36_Witness ==
    /\ lg_last.op = "flush"
    /\ \E a \in Addrs :
        /\ Cardinality(StampsOf(lg_mem, a)) >= 2
        /\ Cardinality(StampsOf(EntriesOfFile, a)) >= 2
        /\ \E t \in StampsOf(lg_mem, a) : t > MaxTime

----------------------------------------------------------------------------
(* Claims about the text of the ledger file (SpecFile) *)

\* how many colons a line holds
Colons(line) == Cardinality({i \in DOMAIN line : line[i] = ":"})

\* C37: every line of the file is blank or holds exactly one entry
\* "address: timestamp" that the load parses, and a load of the file reads
\* every line without an error.
C37_FileWellFormed ==
    fl_exists =>
        /\ \A i \in DOMAIN readlines(fl_text) :
              LET line == readlines(fl_text)[i]
              IN  \/ ParseLine(line).kind = "blank"
                  \/ /\ ParseLine(line).kind = "entry"
                     /\ ParseLine(line).row.addr \in Addrs
                     /\ Colons(line) = 1
        /\ LoadLines(readlines(fl_text), [ok |-> TRUE, entries |-> <<>>]).ok

\* entries were flushed, a remove took lines out of the file, and a later
\* flush wrote entries behind what was left
C37_Witness ==
    /\ \E i, j, k \in DOMAIN fl_log :
          /\ i < j /\ j < k
          /\ fl_log[i] = "flush" /\ fl_log[j] = "remove" /\ fl_log[k] = "flush"
    /\ fl_log[Len(fl_log)] = "flush"
    /\ IsSubstr(<<NL, NL>>, fl_text)
    /\ \E i \in DOMAIN readlines(fl_text) :
          ParseLine(readlines(fl_text)[i]).kind = "entry"

----------------------------------------------------------------------------
(* Claims about several runs (SpecRuns) *)

\* how many offer replies and bookings a message of the mailbox triggered
ActionsFor(i) == Cardinality({k \in DOMAIN rn_actions : rn_actions[k][1] = i})

====
